---- MODULE Spec2Model ----
(***************************************************************************)
(* Authentication flow orchestration layer of kratos-chi-ollama: the        *)
(* session-gating middleware, the flow handlers, the Kratos client and the  *)
(* recovery continuation, as a state machine that serves one request at a   *)
(* time against an identity provider whose answers are nondeterministic.    *)
(*                                                                          *)
(* Strings the code inspects (headers, flow IDs, body fields) are sequences *)
(* of one-character strings, so that prefix tests, trimming and lengths are *)
(* computed as the code computes them.                                      *)
(***************************************************************************)
EXTENDS Naturals, Sequences, FiniteSets, TLC

VARIABLES
    pc,         \* position of the request in flight: idle / mw / handler / done
    req,        \* the request in flight (wiring, headers, flow ID, body)
    ctx,        \* value stored under SessionContextKey in the request context
    verdict,    \* what the session validator returned to the middleware
    nextCalls,  \* times a middleware invoked next.ServeHTTP for this request
    calls,      \* provider calls issued while serving this request, in order
    resp,       \* response written for this request
    inner,      \* the response as the chain inside Recoverer left it
    sessions,   \* provider side: session tokens that are currently valid
    issued,     \* provider side: session tokens ever granted by a login
    loggedOut,  \* tokens for which a logout request was answered with 200
    kratosClient, \* the KratosClient main constructs, shared by all requests
    inflight    \* per goroutine, the request it serves when requests overlap

vars == <<pc, req, ctx, verdict, nextCalls, calls, resp, inner, sessions, issued, loggedOut,
          kratosClient, inflight>>

\* Body of a response that carries no payload.
NoBody == [type |-> "none"]

(***************************************************************************)
(* Bounds of the model.                                                     *)
(***************************************************************************)
\* Longest continue_with list the provider attaches to a recovery response.
MaxContinueWith == 2

(***************************************************************************)
(* HTTP statuses and error codes (pkg/errors).                              *)
(***************************************************************************)
StatusOK == 200
StatusCreated == 201
StatusBadRequest == 400
StatusUnauthorized == 401
StatusNotFound == 404
StatusMethodNotAllowed == 405
StatusInternalServerError == 500
StatusServiceUnavailable == 503

ErrCodeValidation == "VALIDATION_ERROR"
ErrCodeUnauthorized == "UNAUTHORIZED"
ErrCodeNotFound == "NOT_FOUND"
ErrCodeInternal == "INTERNAL_ERROR"
ErrCodeBadRequest == "BAD_REQUEST"
ErrCodeServiceUnavail == "SERVICE_UNAVAILABLE"

\* AppError.WriteJSON: the status is the error's HTTPStatus, the body is the
\* envelope {"error": {code, message}}.
WriteJSON(e) ==
    [status |-> e.HTTPStatus, kind |-> "error", code |-> e.Code,
     message |-> e.Message, body |-> NoBody]

NewValidationError(message) ==
    [Code |-> ErrCodeValidation, Message |-> message, HTTPStatus |-> StatusBadRequest]

NewUnauthorizedError(message) ==
    [Code |-> ErrCodeUnauthorized, Message |-> message, HTTPStatus |-> StatusUnauthorized]

NewInternalError(message) ==
    [Code |-> ErrCodeInternal, Message |-> message, HTTPStatus |-> StatusInternalServerError]

NewBadRequestError(message) ==
    [Code |-> ErrCodeBadRequest, Message |-> message, HTTPStatus |-> StatusBadRequest]

\* The message is "<service> is unavailable"; the service name stands for it.
NewServiceUnavailableError(service) ==
    [Code |-> ErrCodeServiceUnavail, Message |-> service, HTTPStatus |-> StatusServiceUnavailable]

\* response.JSON / response.Success / response.Created
JSON(status, data) ==
    [status |-> status, kind |-> "json", code |-> "", message |-> "", body |-> data]

Success(data) == JSON(StatusOK, data)

Created(data) == JSON(StatusCreated, data)

\* http.Error of the standard library: a text/plain body, no error envelope.
HttpError(message, status) ==
    [status |-> status, kind |-> "text", code |-> "", message |-> message, body |-> NoBody]

\* A nil-pointer dereference unwinds the handler: nothing is written by it.
Panic == [status |-> 0, kind |-> "panic", code |-> "", message |-> "", body |-> NoBody]

NoResp == [status |-> 0, kind |-> "none", code |-> "", message |-> "", body |-> NoBody]

\* A panic that unwinds a handler after the handler has written w.
PanicAfter(w) == [w EXCEPT !.kind = "panic"]

(***************************************************************************)
(* Strings.                                                                 *)
(***************************************************************************)
Empty == << >>
SP == " "

HasPrefix(s, p) == Len(s) >= Len(p) /\ SubSeq(s, 1, Len(p)) = p

TrimPrefix(s, p) == IF HasPrefix(s, p) THEN SubSeq(s, Len(p) + 1, Len(s)) ELSE s

RECURSIVE TrimLeft(_)
TrimLeft(s) == IF s # Empty /\ Head(s) = SP THEN TrimLeft(Tail(s)) ELSE s

RECURSIVE TrimRight(_)
TrimRight(s) ==
    IF s # Empty /\ s[Len(s)] = SP THEN TrimRight(SubSeq(s, 1, Len(s) - 1)) ELSE s

TrimSpace(s) == TrimRight(TrimLeft(s))

Bearer == <<"B", "e", "a", "r", "e", "r", " ">>

(***************************************************************************)
(* internal/middleware: ExtractSessionToken.                                *)
(***************************************************************************)
\* An extraction that looks at the Authorization header first.
ExtractSessionToken_AuthorizationFirst(r) ==
    IF HasPrefix(r.authorization, Bearer)
    THEN TrimPrefix(r.authorization, Bearer)
    ELSE r.xSessionToken

ExtractSessionToken(r) ==
    IF r.xSessionToken # Empty THEN r.xSessionToken
    ELSE IF HasPrefix(r.authorization, Bearer)
         THEN TrimPrefix(r.authorization, Bearer)
         ELSE Empty

(***************************************************************************)
(* Request bodies.  A body is either not JSON at all, or a JSON object: a   *)
(* finite map from field names to string values.  A field that is missing  *)
(* (or not a string) fails the type assertion data[f].(string), which then  *)
(* yields the zero value "".                                                *)
(***************************************************************************)
Rep(c, n) == [i \in 1..n |-> c]

BadJSON == [json |-> FALSE, fields |-> << >>]

Obj(f) == [json |-> TRUE, fields |-> f]

HasField(b, f) == f \in DOMAIN b.fields

Field(b, f) == IF HasField(b, f) THEN b.fields[f] ELSE Empty

\* net/mail.ParseAddress on the shapes used here: one "@" with a non-empty
\* local part and a non-empty domain, surrounding blanks ignored.
isValidEmail(email) ==
    LET t == TrimSpace(email) IN
    /\ \E i \in 1..Len(t) : t[i] = "@" /\ i > 1 /\ i < Len(t)
    /\ Cardinality({i \in 1..Len(t) : t[i] = "@"}) = 1
    /\ \A i \in 1..Len(t) : t[i] # SP

MinLoginPasswordLen == 6
MinRegistrationPasswordLen == 8
MinCodeLen == 6
MinRecoveryPasswordLen == 8

NoInput == [Email |-> Empty, Password |-> Empty, Code |-> Empty,
            FirstName |-> Empty, LastName |-> Empty]

Invalid(message) == [ok |-> FALSE, err |-> NewValidationError(message), input |-> NoInput]

Valid(input) == [ok |-> TRUE, err |-> NewValidationError("none"), input |-> input]

ValidateFlowID(flowID) ==
    IF TrimSpace(flowID) = Empty THEN Invalid("flow parameter is required")
    ELSE Valid(NoInput)

ValidateLoginInput(body) ==
    IF ~body.json THEN Invalid("Invalid JSON body")
    ELSE IF ~HasField(body, "email") \/ TrimSpace(Field(body, "email")) = Empty
    THEN Invalid("email is required")
    ELSE IF ~isValidEmail(Field(body, "email")) THEN Invalid("invalid email format")
    ELSE IF ~HasField(body, "pass") \/ Field(body, "pass") = Empty
    THEN Invalid("password is required")
    ELSE IF Len(Field(body, "pass")) < MinLoginPasswordLen
    THEN Invalid("password must be at least 6 characters")
    ELSE Valid([NoInput EXCEPT !.Email = Field(body, "email"),
                               !.Password = Field(body, "pass")])

ValidateRegistrationInput(body) ==
    IF ~body.json THEN Invalid("Invalid JSON body")
    ELSE IF ~HasField(body, "email") \/ TrimSpace(Field(body, "email")) = Empty
    THEN Invalid("email is required")
    ELSE IF ~isValidEmail(Field(body, "email")) THEN Invalid("invalid email format")
    ELSE IF ~HasField(body, "pass") \/ Field(body, "pass") = Empty
    THEN Invalid("password is required")
    ELSE IF Len(Field(body, "pass")) < MinRegistrationPasswordLen
    THEN Invalid("password must be at least 8 characters")
    ELSE IF ~HasField(body, "first_name") \/ TrimSpace(Field(body, "first_name")) = Empty
    THEN Invalid("first_name is required")
    ELSE IF ~HasField(body, "last_name") \/ TrimSpace(Field(body, "last_name")) = Empty
    THEN Invalid("last_name is required")
    ELSE Valid([NoInput EXCEPT !.Email = Field(body, "email"),
                               !.Password = Field(body, "pass"),
                               !.FirstName = Field(body, "first_name"),
                               !.LastName = Field(body, "last_name")])

\* The four validators below belong to internal/validation but their source
\* is not part of the tree; they follow the validation tests and section 7
\* of the specification (required fields, email format, minimum lengths;
\* values are trimmed).
ValidateVerificationEmailInput(body) ==
    IF ~body.json THEN Invalid("Invalid JSON body")
    ELSE IF ~HasField(body, "email") \/ TrimSpace(Field(body, "email")) = Empty
    THEN Invalid("email is required")
    ELSE IF ~isValidEmail(TrimSpace(Field(body, "email")))
    THEN Invalid("invalid email format")
    ELSE Valid([NoInput EXCEPT !.Email = TrimSpace(Field(body, "email"))])

ValidateVerificationCodeInput(body) ==
    IF ~body.json THEN Invalid("Invalid JSON body")
    ELSE IF ~HasField(body, "email") \/ TrimSpace(Field(body, "email")) = Empty
    THEN Invalid("email is required")
    ELSE IF ~isValidEmail(TrimSpace(Field(body, "email")))
    THEN Invalid("invalid email format")
    ELSE IF ~HasField(body, "code") \/ TrimSpace(Field(body, "code")) = Empty
    THEN Invalid("code is required")
    ELSE IF Len(TrimSpace(Field(body, "code"))) < MinCodeLen
    THEN Invalid("code must be at least 6 characters")
    ELSE Valid([NoInput EXCEPT !.Email = TrimSpace(Field(body, "email")),
                               !.Code = TrimSpace(Field(body, "code"))])

ValidateRecoveryEmailInput(body) ==
    IF ~body.json THEN Invalid("Invalid JSON body")
    ELSE IF ~HasField(body, "email") \/ TrimSpace(Field(body, "email")) = Empty
    THEN Invalid("email is required")
    ELSE IF ~isValidEmail(TrimSpace(Field(body, "email")))
    THEN Invalid("invalid email format")
    ELSE Valid([NoInput EXCEPT !.Email = TrimSpace(Field(body, "email"))])

ValidateRecoveryCodeInput(body) ==
    IF ~body.json THEN Invalid("Invalid JSON body")
    ELSE IF ~HasField(body, "code") \/ TrimSpace(Field(body, "code")) = Empty
    THEN Invalid("code is required")
    ELSE IF Len(TrimSpace(Field(body, "code"))) < MinCodeLen
    THEN Invalid("code must be at least 6 characters")
    ELSE IF ~HasField(body, "password") \/ Field(body, "password") = Empty
    THEN Invalid("password is required")
    ELSE IF Len(Field(body, "password")) < MinRecoveryPasswordLen
    THEN Invalid("password must be at least 8 characters")
    ELSE Valid([NoInput EXCEPT !.Code = TrimSpace(Field(body, "code")),
                               !.Password = Field(body, "password")])

(***************************************************************************)
(* internal/auth: flow body builders.                                       *)
(***************************************************************************)
BuildPasswordLoginBody(email, password) ==
    [variant |-> "UpdateLoginFlowWithPasswordMethod", Method |-> "password",
     Identifier |-> email, Password |-> password]

BuildPasswordRegistrationBody(email, password, firstName, lastName) ==
    [variant |-> "UpdateRegistrationFlowWithPasswordMethod", Method |-> "password",
     Password |-> password,
     Traits |-> [email |-> email, first |-> firstName, last |-> lastName]]

BuildCodeVerificationBodySubmit(email, code) ==
    [variant |-> "UpdateVerificationFlowWithCodeMethod", Method |-> "code",
     Email |-> <<email>>, Code |-> <<code>>]

BuildCodeVerificationBody(email) ==
    [variant |-> "UpdateVerificationFlowWithCodeMethod", Method |-> "code",
     Email |-> <<email>>, Code |-> << >>]

\* A request-step builder that fills the code field as well.
BuildCodeRecoveryBody_WithCode(email) ==
    [variant |-> "UpdateRecoveryFlowWithCodeMethod", Method |-> "code",
     RecoveryAddress |-> <<email>>, Code |-> <<email>>]

BuildCodeRecoveryBody(email) ==
    [variant |-> "UpdateRecoveryFlowWithCodeMethod", Method |-> "code",
     RecoveryAddress |-> <<email>>, Code |-> << >>]

\* The password argument is not part of the body: it travels in the settings
\* flow that follows.
BuildCodeRecoveryBodySubmit(code, password) ==
    [variant |-> "UpdateRecoveryFlowWithCodeMethod", Method |-> "code",
     RecoveryAddress |-> << >>, Code |-> <<code>>]

BuildPasswordSettingsBody(password) ==
    [variant |-> "UpdateSettingsFlowWithPasswordMethod", Method |-> "password",
     Password |-> password]

BuildNewPerformNativeLogoutBody(sessionToken) == [SessionToken |-> sessionToken]

NoReqBody == [variant |-> "none"]

(***************************************************************************)
(* internal/auth: KratosClient.  Every method issues one provider call and  *)
(* turns the provider's answer into (result, err).  An answer is            *)
(*   [ok, status, result]: ok = the call returned without error; status =   *)
(* the HTTP status of a failed call, 0 when there was no HTTP response.     *)
(* A method returns [call, err, result]; err = "" stands for nil.           *)
(***************************************************************************)
NoResult == [type |-> "nil"]

\* The session the provider resolves a valid token to.
SessionOf(token) == [type |-> "session", token |-> token]

Call(op, flow, token, body, ans) ==
    [op |-> op, flow |-> flow, token |-> token, body |-> body, ok |-> ans.ok,
     status |-> ans.status, result |-> ans.result, ctx |-> "request"]

Ret(call, ans, errmsg) ==
    [call |-> call,
     err |-> IF ans.ok THEN "" ELSE errmsg,
     result |-> IF ans.ok THEN ans.result ELSE NoResult]

\* ValidateSession refuses an empty token without calling the provider.
KratosClient_ValidateSession(sessionToken, ans) ==
    IF sessionToken = Empty
    THEN [called |-> FALSE, call |-> Call("ToSession", Empty, Empty, NoReqBody, ans),
          err |-> "session token is required", result |-> NoResult]
    ELSE [called |-> TRUE,
          call |-> Call("ToSession", Empty, sessionToken, NoReqBody, ans),
          err |-> IF ans.ok THEN ""
                  ELSE IF ans.status = StatusUnauthorized
                       THEN "unauthorized: invalid or expired session"
                       ELSE "failed to validate session",
          result |-> IF ans.ok THEN ans.result ELSE NoResult]

\* ToSession of internal/auth/kratos.go: the cookie and the token are set on
\* the provider request when they are non-empty, and the request is executed
\* in every case.
Legacy_KratosClient_ToSession(cookie, token, ans) ==
    [called |-> TRUE,
     call |-> Call("ToSession", Empty, IF token # Empty THEN token ELSE cookie,
                   NoReqBody, ans),
     err |-> IF ans.ok THEN ""
             ELSE IF ans.status = StatusUnauthorized
                  THEN "unauthorized: provider error"
                  ELSE "failed to validate session",
     result |-> IF ans.ok THEN ans.result ELSE NoResult]

KratosClient_CreateLoginFlow(ans) ==
    Ret(Call("CreateNativeLoginFlow", Empty, Empty, NoReqBody, ans), ans,
        "failed to create login flow")

KratosClient_UpdateLoginFlow(flowID, body, ans) ==
    Ret(Call("UpdateLoginFlow", flowID, Empty, body, ans), ans,
        "failed to update login flow")

KratosClient_CreateRegistrationFlow(ans) ==
    Ret(Call("CreateNativeRegistrationFlow", Empty, Empty, NoReqBody, ans), ans,
        "failed to create registration flow")

KratosClient_UpdateRegistrationFlow(flowID, body, ans) ==
    Ret(Call("UpdateRegistrationFlow", flowID, Empty, body, ans), ans,
        "failed to update registration flow")

\* The token to revoke travels in the body of the call.
KratosClient_PerformNativeLogout(sessionBody, ans) ==
    Ret(Call("PerformNativeLogout", Empty, Empty, sessionBody, ans), ans,
        "failed to logout")

KratosClient_CreateLogoutFlow(cookie, ans) ==
    Ret(Call("CreateBrowserLogoutFlow", Empty, cookie, NoReqBody, ans), ans,
        "failed to create logout flow")

KratosClient_CreateVerificationFlow(ans) ==
    Ret(Call("CreateNativeVerificationFlow", Empty, Empty, NoReqBody, ans), ans,
        "failed to create verification flow")

KratosClient_UpdateVerificationFlow(flowID, body, ans) ==
    Ret(Call("UpdateVerificationFlow", flowID, Empty, body, ans), ans,
        "failed to update verification flow")

KratosClient_CreateRecoveryFlow(ans) ==
    Ret(Call("CreateNativeRecoveryFlow", Empty, Empty, NoReqBody, ans), ans,
        "failed to create recovery flow")

KratosClient_UpdateRecoveryFlow(flowID, body, ans) ==
    Ret(Call("UpdateRecoveryFlow", flowID, Empty, body, ans), ans,
        "failed to update recovery flow")

\* The session token is attached to the provider call only when non-empty.
KratosClient_UpdateSettingsFlow(flowID, body, sessionToken, ans) ==
    Ret(Call("UpdateSettingsFlow", flowID, sessionToken, body, ans), ans,
        "failed to update settings flow")

(***************************************************************************)
(* internal/auth: registration flow shaping.  A UI node is                  *)
(*   [input, name, type, required, value, isString, label]; input = FALSE   *)
(* for a node whose attributes are not input attributes; label = << >> for  *)
(* a node without a label.                                                  *)
(***************************************************************************)
RECURSIVE ExtractCSRFToken(_)
ExtractCSRFToken(nodes) ==
    IF nodes = << >> THEN Empty
    ELSE IF Head(nodes).input /\ Head(nodes).name = "csrf_token" /\ Head(nodes).isString
         THEN Head(nodes).value
         ELSE ExtractCSRFToken(Tail(nodes))

\* A shaping that turns every node into a field, input or not.
ExtractFormFields_AllNodes(nodes) ==
    [i \in 1..Len(nodes) |->
        [name |-> nodes[i].name, type |-> nodes[i].type, required |-> nodes[i].required,
         value |-> nodes[i].value, label |-> nodes[i].label]]

RECURSIVE ExtractFormFields(_)
ExtractFormFields(nodes) ==
    IF nodes = << >> THEN << >>
    ELSE IF Head(nodes).input
         THEN <<[name |-> Head(nodes).name, type |-> Head(nodes).type,
                 required |-> Head(nodes).required, value |-> Head(nodes).value,
                 label |-> Head(nodes).label]>> \o ExtractFormFields(Tail(nodes))
         ELSE ExtractFormFields(Tail(nodes))

(***************************************************************************)
(* internal/handlers: AuthHandler.  A handler is a function of the request  *)
(* and of the provider's answers to the calls it issues; it yields the      *)
(* response it writes and the provider calls it issued, in order.           *)
(***************************************************************************)
Out(response, issuedCalls) == [resp |-> response, calls |-> issuedCalls]

CreateLoginFlow(r, ans) ==
    LET c == KratosClient_CreateLoginFlow(ans) IN
    IF c.err # "" THEN Out(WriteJSON(NewServiceUnavailableError("Kratos")), <<c.call>>)
    ELSE Out(Success(c.result), <<c.call>>)

\* A login submission that reports a provider failure as an internal error.
SubmitLogin_FailureInternal(r, ans) ==
    LET f == ValidateFlowID(r.flow)
        v == ValidateLoginInput(r.body)
        c == KratosClient_UpdateLoginFlow(r.flow,
                 BuildPasswordLoginBody(v.input.Email, v.input.Password), ans)
    IN  IF ~f.ok THEN Out(WriteJSON(f.err), << >>)
        ELSE IF ~v.ok THEN Out(WriteJSON(v.err), << >>)
        ELSE IF c.err # ""
             THEN Out(WriteJSON(NewInternalError("login failed")), <<c.call>>)
             ELSE Out(Success(c.result), <<c.call>>)

SubmitLogin(r, ans) ==
    LET f == ValidateFlowID(r.flow)
        v == ValidateLoginInput(r.body)
        c == KratosClient_UpdateLoginFlow(r.flow,
                 BuildPasswordLoginBody(v.input.Email, v.input.Password), ans)
    IN  IF ~f.ok THEN Out(WriteJSON(f.err), << >>)
        ELSE IF ~v.ok THEN Out(WriteJSON(v.err), << >>)
        ELSE IF c.err # ""
             THEN Out(WriteJSON(NewUnauthorizedError("invalid credentials")), <<c.call>>)
             ELSE Out(Success(c.result), <<c.call>>)

CreateRegistrationFlow(r, ans) ==
    LET c == KratosClient_CreateRegistrationFlow(ans) IN
    IF c.err # "" THEN Out(WriteJSON(NewServiceUnavailableError("Kratos")), <<c.call>>)
    ELSE Out(Success([type |-> "RegistrationFlowResponse",
                      FlowID |-> c.result.id,
                      CSRFToken |-> ExtractCSRFToken(c.result.nodes),
                      Action |-> c.result.action,
                      Method |-> c.result.method,
                      Fields |-> ExtractFormFields(c.result.nodes),
                      ExpiresAt |-> IF c.result.expiresZero THEN "" ELSE "expires"]),
             <<c.call>>)

\* A registration handler that does not look at the error of the client.
SubmitRegistration_Unchecked(r, ans) ==
    LET f == ValidateFlowID(r.flow)
        v == ValidateRegistrationInput(r.body)
        c == KratosClient_UpdateRegistrationFlow(r.flow,
                 BuildPasswordRegistrationBody(v.input.Email, v.input.Password,
                                               v.input.FirstName, v.input.LastName), ans)
    IN  IF ~f.ok THEN Out(WriteJSON(f.err), << >>)
        ELSE IF ~v.ok THEN Out(WriteJSON(v.err), << >>)
        ELSE Out(Created(c.result), <<c.call>>)

SubmitRegistration(r, ans) ==
    LET f == ValidateFlowID(r.flow)
        v == ValidateRegistrationInput(r.body)
        c == KratosClient_UpdateRegistrationFlow(r.flow,
                 BuildPasswordRegistrationBody(v.input.Email, v.input.Password,
                                               v.input.FirstName, v.input.LastName), ans)
    IN  IF ~f.ok THEN Out(WriteJSON(f.err), << >>)
        ELSE IF ~v.ok THEN Out(WriteJSON(v.err), << >>)
        ELSE IF c.err # ""
             THEN Out(WriteJSON(NewInternalError("registration failed")), <<c.call>>)
             ELSE Out(Created(c.result), <<c.call>>)

CreateVerificationFlow(r, ans) ==
    LET c == KratosClient_CreateVerificationFlow(ans) IN
    IF c.err # "" THEN Out(WriteJSON(NewServiceUnavailableError("Kratos")), <<c.call>>)
    ELSE Out(Success(c.result), <<c.call>>)

RequestVerificationEmail(r, ans) ==
    LET f == ValidateFlowID(r.flow)
        v == ValidateVerificationEmailInput(r.body)
        c == KratosClient_UpdateVerificationFlow(r.flow,
                 BuildCodeVerificationBody(v.input.Email), ans)
    IN  IF ~f.ok THEN Out(WriteJSON(f.err), << >>)
        ELSE IF ~v.ok THEN Out(WriteJSON(v.err), << >>)
        ELSE IF c.err # ""
             THEN Out(WriteJSON(NewInternalError("failed to send verification email")),
                      <<c.call>>)
             ELSE Out(Success(c.result), <<c.call>>)

\* A verification handler that calls the provider before it validates the body.
SubmitVerificationCode_CallFirst(r, ans) ==
    LET f == ValidateFlowID(r.flow)
        v == ValidateVerificationCodeInput(r.body)
        c == KratosClient_UpdateVerificationFlow(r.flow,
                 BuildCodeVerificationBodySubmit(v.input.Email, v.input.Code), ans)
    IN  IF ~f.ok THEN Out(WriteJSON(f.err), << >>)
        ELSE IF c.err # ""
             THEN Out(WriteJSON(NewBadRequestError("invalid or expired verification code")),
                      <<c.call>>)
        ELSE IF ~v.ok THEN Out(WriteJSON(v.err), <<c.call>>)
             ELSE Out(Success(c.result), <<c.call>>)

\* A verification handler that reports a rejected code as a server error.
SubmitVerificationCode_Internal(r, ans) ==
    LET f == ValidateFlowID(r.flow)
        v == ValidateVerificationCodeInput(r.body)
        c == KratosClient_UpdateVerificationFlow(r.flow,
                 BuildCodeVerificationBodySubmit(v.input.Email, v.input.Code), ans)
    IN  IF ~f.ok THEN Out(WriteJSON(f.err), << >>)
        ELSE IF ~v.ok THEN Out(WriteJSON(v.err), << >>)
        ELSE IF c.err # ""
             THEN Out(WriteJSON(NewInternalError("failed to verify code")), <<c.call>>)
             ELSE Out(Success(c.result), <<c.call>>)

SubmitVerificationCode(r, ans) ==
    LET f == ValidateFlowID(r.flow)
        v == ValidateVerificationCodeInput(r.body)
        c == KratosClient_UpdateVerificationFlow(r.flow,
                 BuildCodeVerificationBodySubmit(v.input.Email, v.input.Code), ans)
    IN  IF ~f.ok THEN Out(WriteJSON(f.err), << >>)
        ELSE IF ~v.ok THEN Out(WriteJSON(v.err), << >>)
        ELSE IF c.err # ""
             THEN Out(WriteJSON(NewBadRequestError("invalid or expired verification code")),
                      <<c.call>>)
             ELSE Out(Success(c.result), <<c.call>>)

Logout(r, ans) ==
    LET sessionToken == ExtractSessionToken(r)
        c == KratosClient_PerformNativeLogout(
                 BuildNewPerformNativeLogoutBody(sessionToken), ans)
    IN  IF sessionToken = Empty
        THEN Out(WriteJSON(NewUnauthorizedError("no session token provided")), << >>)
        ELSE IF c.err # ""
             THEN Out(WriteJSON(NewInternalError("failed to logout")), <<c.call>>)
             ELSE Out(Success([type |-> "message", message |-> "Successfully logged out"]),
                      <<c.call>>)

\* The Logout of the earlier handler set of part_007: it asks the provider
\* for a logout flow for the Cookie header of the request.
Cookie_Logout(r, ans) ==
    LET c == KratosClient_CreateLogoutFlow(r.cookie, ans) IN
    IF r.cookie = Empty
    THEN Out(WriteJSON(NewBadRequestError("no session cookie provided")), << >>)
    ELSE IF c.err # ""
         THEN Out(WriteJSON(NewInternalError("failed to create logout flow")), <<c.call>>)
         ELSE Out(Success(c.result), <<c.call>>)

\* A whoami that answers for any credential without asking the provider.
WhoAmI_Trusting(r, ans) ==
    LET sessionToken == ExtractSessionToken(r) IN
    IF sessionToken = Empty
    THEN Out(WriteJSON(NewUnauthorizedError("no session token provided")), << >>)
    ELSE Out(Success(SessionOf(sessionToken)), << >>)

WhoAmI(r, ans) ==
    LET sessionToken == ExtractSessionToken(r)
        c == KratosClient_ValidateSession(sessionToken, ans)
    IN  IF sessionToken = Empty
        THEN Out(WriteJSON(NewUnauthorizedError("no session token provided")), << >>)
        ELSE IF c.err # ""
             THEN Out(WriteJSON(NewUnauthorizedError("invalid or expired session")),
                      <<c.call>>)
             ELSE Out(Success(c.result), <<c.call>>)

CreateRecoveryFlow(r, ans) ==
    LET c == KratosClient_CreateRecoveryFlow(ans) IN
    IF c.err # "" THEN Out(WriteJSON(NewServiceUnavailableError("Kratos")), <<c.call>>)
    ELSE Out(Success(c.result), <<c.call>>)

RequestRecoveryCode(r, ans) ==
    LET f == ValidateFlowID(r.flow)
        v == ValidateRecoveryEmailInput(r.body)
        c == KratosClient_UpdateRecoveryFlow(r.flow,
                 BuildCodeRecoveryBody(v.input.Email), ans)
    IN  IF ~f.ok THEN Out(WriteJSON(f.err), << >>)
        ELSE IF ~v.ok THEN Out(WriteJSON(v.err), << >>)
        ELSE IF c.err # ""
             THEN Out(WriteJSON(NewInternalError("failed to send recovery code")),
                      <<c.call>>)
             ELSE Out(Success(c.result), <<c.call>>)

(***************************************************************************)
(* internal/handlers/llm.go.  The handlers decode the body themselves and   *)
(* report errors with http.Error.  ans is the answer of the language-model  *)
(* client.                                                                  *)
(***************************************************************************)
Chat(r, ans) ==
    LET c == Call("Chat", Empty, Empty, NoReqBody, ans) IN
    IF ~r.body.json THEN Out(HttpError("Invalid request body", StatusBadRequest), << >>)
    ELSE IF Field(r.body, "messages") = Empty
    THEN Out(HttpError("Messages array cannot be empty", StatusBadRequest), << >>)
    ELSE IF ~ans.ok
    THEN Out(HttpError("chat failed", StatusInternalServerError), <<c>>)
    ELSE Out(JSON(StatusOK, ans.result), <<c>>)

Generate(r, ans) ==
    LET c == Call("GenerateContent", Empty, Empty, NoReqBody, ans) IN
    IF ~r.body.json THEN Out(HttpError("Invalid request body", StatusBadRequest), << >>)
    ELSE IF Field(r.body, "prompt") = Empty
    THEN Out(HttpError("Prompt cannot be empty", StatusBadRequest), << >>)
    ELSE IF ~ans.ok
    THEN Out(HttpError("generation failed", StatusInternalServerError), <<c>>)
    ELSE Out(JSON(StatusOK, ans.result), <<c>>)

(***************************************************************************)
(* The recovery continuation.  A continue_with action is                    *)
(*   [action, token, flow]: action "set_ory_session_token" carries a token, *)
(* "show_settings_ui" refers to a settings flow, any other action kind      *)
(* (here "show_verification_ui") carries neither.                           *)
(***************************************************************************)
SetToken(t) == [action |-> "set_ory_session_token", token |-> t, flow |-> Empty]
SettingsUi(f) == [action |-> "show_settings_ui", token |-> Empty, flow |-> f]
OtherAction == [action |-> "show_verification_ui", token |-> Empty, flow |-> Empty]

\* A first loop that never picks a token up.
ContinueSessionToken_None(actions, sessionToken) == sessionToken

\* First loop of SubmitRecoveryCode: the token of the last session-token
\* action of the list, "" when there is none.
RECURSIVE ContinueSessionToken(_, _)
ContinueSessionToken(actions, sessionToken) ==
    IF actions = << >> THEN sessionToken
    ELSE IF Head(actions).action = "set_ory_session_token"
         THEN ContinueSessionToken(Tail(actions), Head(actions).token)
         ELSE ContinueSessionToken(Tail(actions), sessionToken)

\* A second loop that submits nothing.
ContinueSettings_Skipped(actions, password, sessionToken, answers, done) ==
    [failed |-> FALSE, calls |-> done]

\* Second loop of SubmitRecoveryCode: one settings submission per settings
\* action, in list order, stopping at the first one that fails.  answers[i]
\* is the provider's answer to the i-th submission.
RECURSIVE ContinueSettings(_, _, _, _, _)
ContinueSettings(actions, password, sessionToken, answers, done) ==
    IF actions = << >> THEN [failed |-> FALSE, calls |-> done]
    ELSE IF Head(actions).action = "show_settings_ui"
         THEN LET c == KratosClient_UpdateSettingsFlow(Head(actions).flow,
                           BuildPasswordSettingsBody(password), sessionToken,
                           Head(answers))
              IN  IF c.err # ""
                  THEN [failed |-> TRUE, calls |-> Append(done, c.call)]
                  ELSE ContinueSettings(Tail(actions), password, sessionToken,
                                        Tail(answers), Append(done, c.call))
         ELSE ContinueSettings(Tail(actions), password, sessionToken, answers, done)

\* A recovery handler that answers 201 Created on success.
SubmitRecoveryCode_Created(r, ans, settingsAnswers) ==
    LET f == ValidateFlowID(r.flow)
        v == ValidateRecoveryCodeInput(r.body)
        c == KratosClient_UpdateRecoveryFlow(r.flow,
                 BuildCodeRecoveryBodySubmit(v.input.Code, v.input.Password), ans)
        sessionToken == ContinueSessionToken(c.result.ContinueWith, Empty)
        s == ContinueSettings(c.result.ContinueWith, v.input.Password, sessionToken,
                              settingsAnswers, << >>)
    IN  IF ~f.ok THEN Out(WriteJSON(f.err), << >>)
        ELSE IF ~v.ok THEN Out(WriteJSON(v.err), << >>)
        ELSE IF c.err # ""
             THEN Out(WriteJSON(NewBadRequestError("invalid or expired recovery code")),
                      <<c.call>>)
        ELSE IF s.failed
             THEN Out(WriteJSON(NewInternalError("failed to update password")),
                      <<c.call>> \o s.calls)
             ELSE Out(Created(c.result), <<c.call>> \o s.calls)

\* A recovery handler that reports a failed settings submission like a
\* rejected code.
SubmitRecoveryCode_SettingsBadRequest(r, ans, settingsAnswers) ==
    LET f == ValidateFlowID(r.flow)
        v == ValidateRecoveryCodeInput(r.body)
        c == KratosClient_UpdateRecoveryFlow(r.flow,
                 BuildCodeRecoveryBodySubmit(v.input.Code, v.input.Password), ans)
        sessionToken == ContinueSessionToken(c.result.ContinueWith, Empty)
        s == ContinueSettings(c.result.ContinueWith, v.input.Password, sessionToken,
                              settingsAnswers, << >>)
    IN  IF ~f.ok THEN Out(WriteJSON(f.err), << >>)
        ELSE IF ~v.ok THEN Out(WriteJSON(v.err), << >>)
        ELSE IF c.err # ""
             THEN Out(WriteJSON(NewBadRequestError("invalid or expired recovery code")),
                      <<c.call>>)
        ELSE IF s.failed
             THEN Out(WriteJSON(NewBadRequestError("invalid or expired recovery code")),
                      <<c.call>> \o s.calls)
             ELSE Out(Success(c.result), <<c.call>> \o s.calls)

\* A recovery handler that submits the code a second time when the provider
\* turned the first submission down.
SubmitRecoveryCode_Retrying(r, ans, settingsAnswers) ==
    LET f == ValidateFlowID(r.flow)
        v == ValidateRecoveryCodeInput(r.body)
        c == KratosClient_UpdateRecoveryFlow(r.flow,
                 BuildCodeRecoveryBodySubmit(v.input.Code, v.input.Password), ans)
    IN  IF ~f.ok THEN Out(WriteJSON(f.err), << >>)
        ELSE IF ~v.ok THEN Out(WriteJSON(v.err), << >>)
        ELSE IF c.err # ""
             THEN Out(WriteJSON(NewBadRequestError("invalid or expired recovery code")),
                      <<c.call, c.call>>)
        ELSE Out(Success(c.result), <<c.call>>)

SubmitRecoveryCode(r, ans, settingsAnswers) ==
    LET f == ValidateFlowID(r.flow)
        v == ValidateRecoveryCodeInput(r.body)
        c == KratosClient_UpdateRecoveryFlow(r.flow,
                 BuildCodeRecoveryBodySubmit(v.input.Code, v.input.Password), ans)
        sessionToken == ContinueSessionToken(c.result.ContinueWith, Empty)
        s == ContinueSettings(c.result.ContinueWith, v.input.Password, sessionToken,
                              settingsAnswers, << >>)
    IN  IF ~f.ok THEN Out(WriteJSON(f.err), << >>)
        ELSE IF ~v.ok THEN Out(WriteJSON(v.err), << >>)
        ELSE IF c.err # ""
             THEN Out(WriteJSON(NewBadRequestError("invalid or expired recovery code")),
                      <<c.call>>)
        ELSE IF s.failed
             THEN Out(WriteJSON(NewInternalError("failed to update password")),
                      <<c.call>> \o s.calls)
             ELSE Out(Success(c.result), <<c.call>> \o s.calls)

(***************************************************************************)
(* The earlier handler set of internal/handlers/auth.go with the client of  *)
(* internal/auth/kratos.go.  Its client reads resp.StatusCode while         *)
(* building the error, which dereferences nil when the provider gave no     *)
(* HTTP response.                                                           *)
(***************************************************************************)
Legacy_KratosClient_CreateLoginFlow(ans) ==
    [call |-> Call("CreateBrowserLoginFlow", Empty, Empty, NoReqBody, ans),
     panics |-> ~ans.ok /\ ans.status = 0,
     err |-> IF ans.ok THEN "" ELSE "failed to create login flow",
     result |-> IF ans.ok THEN ans.result ELSE NoResult]

Legacy_KratosClient_CreateRegistrationFlow(ans) ==
    [call |-> Call("CreateNativeRegistrationFlow", Empty, Empty, NoReqBody, ans),
     panics |-> ~ans.ok /\ ans.status = 0,
     err |-> IF ans.ok THEN "" ELSE "failed to create registration flow",
     result |-> IF ans.ok THEN ans.result ELSE NoResult]

Legacy_CreateLoginFlow(r, ans) ==
    LET c == Legacy_KratosClient_CreateLoginFlow(ans) IN
    IF c.panics THEN Out(Panic, <<c.call>>)
    ELSE IF c.err # ""
         THEN Out(HttpError(c.err, StatusInternalServerError), <<c.call>>)
         ELSE Out(JSON(StatusOK, c.result), <<c.call>>)

\* The error of the client is discarded and the flow is dereferenced: a
\* failed call leaves flow = nil and flow.Id faults.
Legacy_CreateRegistrationFlow(r, ans) ==
    LET c == Legacy_KratosClient_CreateRegistrationFlow(ans) IN
    IF c.panics \/ c.err # "" THEN Out(Panic, <<c.call>>)
    ELSE Out(JSON(StatusOK,
                  [type |-> "RegistrationFlowResponse",
                   FlowID |-> c.result.id,
                   CSRFToken |-> ExtractCSRFToken(c.result.nodes),
                   Action |-> c.result.action,
                   Method |-> c.result.method,
                   Fields |-> ExtractFormFields(c.result.nodes),
                   ExpiresAt |-> IF c.result.expiresZero THEN "" ELSE "expires"]),
             <<c.call>>)

Legacy_KratosClient_CreateLogoutFlow(cookie, ans) ==
    [call |-> Call("CreateBrowserLogoutFlow", Empty, cookie, NoReqBody, ans),
     panics |-> ~ans.ok /\ ans.status = 0,
     err |-> IF ans.ok THEN "" ELSE "failed to create logout flow",
     result |-> IF ans.ok THEN ans.result ELSE NoResult]

\* Logout of internal/handlers/auth.go: the Cookie header is handed to the
\* provider as it is, present or not; the answer is the provider's logout
\* flow, or a plain-text 500.
Legacy_Logout(r, ans) ==
    LET c == Legacy_KratosClient_CreateLogoutFlow(r.cookie, ans) IN
    IF c.panics THEN Out(Panic, <<c.call>>)
    ELSE IF c.err # ""
         THEN Out(HttpError(c.err, StatusInternalServerError), <<c.call>>)
         ELSE Out(JSON(StatusOK, c.result), <<c.call>>)

\* GetRegistrationFlow of internal/auth/kratos.go submits the registration
\* under context.Background() instead of the context it is given; it logs a
\* provider error and returns a nil error in every case.
Legacy_KratosClient_GetRegistrationFlow(flowID, body, ans) ==
    [call |-> [Call("UpdateRegistrationFlow", flowID, Empty, body, ans)
                  EXCEPT !.ctx = "background"],
     panics |-> FALSE,
     err |-> "",
     result |-> IF ans.ok THEN ans.result ELSE NoResult]

\* GetRegistrationFlow of internal/handlers/auth.go: first_name, last_name
\* and pass are read with unchecked type assertions, which fault when the
\* field is missing.
Legacy_GetRegistrationFlow(r, ans) ==
    LET c == Legacy_KratosClient_GetRegistrationFlow(r.flow,
                 BuildPasswordRegistrationBody(Field(r.body, "email"), Field(r.body, "pass"),
                                               Field(r.body, "first_name"),
                                               Field(r.body, "last_name")), ans)
    IN  IF r.flow = Empty
        THEN Out(HttpError("flow parameter is required", StatusBadRequest), << >>)
        ELSE IF ~r.body.json THEN Out(HttpError("Invalid JSON", StatusBadRequest), << >>)
        ELSE IF \E f \in {"first_name", "last_name", "pass"} : ~HasField(r.body, f)
        THEN Out(Panic, << >>)
        ELSE IF c.err # ""
        THEN Out(HttpError(c.err, StatusInternalServerError), <<c.call>>)
        ELSE Out(JSON(StatusOK, c.result), <<c.call>>)

(***************************************************************************)
(* internal/middleware.  The validator is the SessionValidator interface:   *)
(* v = [called, call, err, result] is what validator.ValidateSession        *)
(* returned.  A middleware yields the response it writes itself (NoResp     *)
(* when it writes none), whether it invokes next, and the context value     *)
(* the downstream handler sees: [has, session], has = a value is stored     *)
(* under SessionContextKey.                                                 *)
(***************************************************************************)
NoCtx == [has |-> FALSE, session |-> NoResult]

\* A mandatory middleware that checks only that a credential is present.
AuthMiddleware_PresenceOnly(r, v) ==
    IF ExtractSessionToken(r) = Empty
    THEN [resp |-> WriteJSON(NewUnauthorizedError("missing session token")),
          next |-> FALSE, ctx |-> NoCtx, validated |-> FALSE]
    ELSE [resp |-> NoResp, next |-> TRUE,
          ctx |-> [has |-> TRUE, session |-> v.result], validated |-> TRUE]

\* An optional middleware that turns away a credential the validator rejects.
OptionalAuthMiddleware_Rejecting(r, v) ==
    IF ExtractSessionToken(r) # Empty
    THEN IF v.err = "" /\ v.result # NoResult
         THEN [resp |-> NoResp, next |-> TRUE,
               ctx |-> [has |-> TRUE, session |-> v.result], validated |-> TRUE]
         ELSE [resp |-> WriteJSON(NewUnauthorizedError("invalid or expired session")),
               next |-> FALSE, ctx |-> NoCtx, validated |-> TRUE]
    ELSE [resp |-> NoResp, next |-> TRUE, ctx |-> NoCtx, validated |-> FALSE]

AuthMiddleware(r, v) ==
    IF ExtractSessionToken(r) = Empty
    THEN [resp |-> WriteJSON(NewUnauthorizedError("missing session token")),
          next |-> FALSE, ctx |-> NoCtx, validated |-> FALSE]
    ELSE IF v.err # ""
    THEN [resp |-> WriteJSON(NewUnauthorizedError("invalid or expired session")),
          next |-> FALSE, ctx |-> NoCtx, validated |-> TRUE]
    ELSE [resp |-> NoResp, next |-> TRUE,
          ctx |-> [has |-> TRUE, session |-> v.result], validated |-> TRUE]

OptionalAuthMiddleware(r, v) ==
    IF ExtractSessionToken(r) # Empty
    THEN IF v.err = "" /\ v.result # NoResult
         THEN [resp |-> NoResp, next |-> TRUE,
               ctx |-> [has |-> TRUE, session |-> v.result], validated |-> TRUE]
         ELSE [resp |-> NoResp, next |-> TRUE, ctx |-> NoCtx, validated |-> TRUE]
    ELSE [resp |-> NoResp, next |-> TRUE, ctx |-> NoCtx, validated |-> FALSE]

\* A barrier that lets the panic through.
Recoverer_NotRecovering(w) == w

\* Recoverer: w is the response as the wrapped chain left it.  After a panic
\* the deferred function writes the INTERNAL_ERROR envelope; when the chain
\* had already written its header, the second WriteHeader is ignored by
\* net/http, the status stays and the envelope is appended to the body.
Recoverer(w) ==
    IF w.kind # "panic" THEN w
    ELSE IF w.status = 0
    THEN WriteJSON(NewInternalError("internal server error"))
    ELSE [status |-> w.status, kind |-> "appended", code |-> ErrCodeInternal,
          message |-> "internal server error", body |-> w.body]

\* GetSessionFromContext: the type assertion succeeds for any stored
\* *ory.Session, a nil one included.
GetSessionFromContext(c) == [session |-> c.session, ok |-> c.has]

\* WhoAmI of internal/handlers/auth.go: the value under SessionContextKey is
\* read with an unchecked type assertion, which faults when nothing is
\* stored, and is written back as it is; the provider is not asked.
Legacy_WhoAmI(c) ==
    IF ~c.has THEN Out(Panic, << >>) ELSE Out(JSON(StatusOK, c.session), << >>)

(***************************************************************************)
(* Inputs: the requests a client can send and the wirings under which a     *)
(* handler runs.                                                            *)
(***************************************************************************)
TokenA == <<"a">>
TokenB == <<"b">>
Tokens == {TokenA, TokenB}

Headers ==
    { [xSessionToken |-> Empty,  authorization |-> Empty],
      [xSessionToken |-> TokenA, authorization |-> Empty],
      [xSessionToken |-> TokenB, authorization |-> Empty],
      [xSessionToken |-> Empty,  authorization |-> Bearer \o TokenA],
      [xSessionToken |-> TokenA, authorization |-> Bearer \o TokenB],
      [xSessionToken |-> Empty,  authorization |-> <<"B", "a", "s", "i", "c", " ">> \o TokenA],
      [xSessionToken |-> Empty,  authorization |-> Bearer] }

FlowF == <<"f">>
FlowIDs == {Empty, <<SP>>, FlowF}

GoodEmail == <<"u", "@", "d">>
Emails == {<<SP>>, <<"x">>, GoodEmail}

Pairs(k1, S1, k2, S2) == {Obj(k1 :> v1 @@ k2 :> v2) : v1 \in S1, v2 \in S2}

CreateHandlers ==
    {"CreateLoginFlow", "CreateRegistrationFlow", "CreateVerificationFlow",
     "CreateRecoveryFlow"}

SubmitHandlers ==
    {"SubmitLogin", "SubmitRegistration", "RequestVerificationEmail",
     "SubmitVerificationCode", "RequestRecoveryCode", "SubmitRecoveryCode"}

LegacyHandlers == {"Legacy_CreateLoginFlow", "Legacy_CreateRegistrationFlow"}

SessionHandlers == {"WhoAmI", "Logout"}

\* The other handlers of internal/handlers/auth.go.
LegacySessionHandlers == {"Legacy_Logout", "Legacy_GetRegistrationFlow"}

\* The session methods of the two provider clients, invoked on their own.
ClientMethods == {"ValidateSession", "Legacy_ToSession"}

Handlers ==
    CreateHandlers \cup SubmitHandlers \cup SessionHandlers \cup LegacyHandlers
        \cup LegacySessionHandlers \cup ClientMethods

LLMHandlers == {"Chat", "Generate"}

\* cmd/server/main.go: the routes the server registers.  A path is a route
\* group (the sub-router it is mounted under) and a leaf inside the group.
Route(method, group, leaf, handler) ==
    [method |-> method, group |-> group, leaf |-> leaf, handler |-> handler]

Routes ==
    {Route("GET", "root", "/health", "Health"),
     Route("GET", "auth", "/login", "CreateLoginFlow"),
     Route("POST", "auth", "/login/flow", "SubmitLogin"),
     Route("GET", "auth", "/registration", "CreateRegistrationFlow"),
     Route("POST", "auth", "/registration/flow", "SubmitRegistration"),
     Route("GET", "verification", "/", "CreateVerificationFlow"),
     Route("POST", "verification", "/flow", "RequestVerificationEmail"),
     Route("POST", "verification", "/code", "SubmitVerificationCode"),
     Route("POST", "llm", "/chat", "Chat"),
     Route("POST", "llm", "/generate", "Generate"),
     Route("GET", "misc", "/whoami", "WhoAmI"),
     Route("POST", "misc", "/logout", "Logout")}

\* A sub-router without the session check.
GroupMiddleware_Open(group) == "none"

\* The middleware a sub-router installs with r.Use: it runs for every
\* request that reaches the sub-router, before the route is looked up.
GroupMiddleware(group) ==
    IF group \in {"verification", "llm", "misc"} THEN "auth" ELSE "none"

\* The router: the handler registered for the method and path; the
\* method-not-allowed handler when the path is registered for another
\* method only; the not-found handler otherwise.
Dispatch(method, group, leaf) ==
    IF \E r \in Routes : r.method = method /\ r.group = group /\ r.leaf = leaf
    THEN (CHOOSE r \in Routes : r.method = method /\ r.group = group /\ r.leaf = leaf).handler
    ELSE IF \E r \in Routes : r.group = group /\ r.leaf = leaf
    THEN "MethodNotAllowed"
    ELSE "NotFound"

ProtectedHandlers == {r.handler : r \in {x \in Routes : GroupMiddleware(x.group) = "auth"}}

\* The request lines sent to the server: every registered route, the same
\* paths with the other method, and the recovery paths.
RequestLines ==
    {[method |-> m, group |-> r.group, leaf |-> r.leaf] : m \in {"GET", "POST"}, r \in Routes}
    \cup {[method |-> "GET", group |-> "recovery", leaf |-> "/"],
          [method |-> "POST", group |-> "recovery", leaf |-> "/flow"],
          [method |-> "POST", group |-> "recovery", leaf |-> "/code"]}

\* Outside the router a handler is invoked directly (as the unit tests do),
\* as the stub "next" behind either middleware with any validator, or
\* wrapped by Recoverer alone.
Wirings ==
    {[handler |-> h, mw |-> "none", validator |-> "none", recoverer |-> FALSE] :
        h \in Handlers}
    \cup {[handler |-> "next", mw |-> m, validator |-> v, recoverer |-> FALSE] :
             m \in {"auth", "optional"}, v \in {"kratos", "mock"}}
    \cup {[handler |-> h, mw |-> "none", validator |-> "none", recoverer |-> TRUE] :
             h \in LegacyHandlers \cup LegacySessionHandlers \cup {"downstream"}}
    \cup {[handler |-> "Cookie_Logout", mw |-> "auth", validator |-> "kratos",
           recoverer |-> FALSE]}

\* What a handler wrapped by Recoverer may do: write a response, panic, or
\* panic after it has written its response.
DownstreamBehaviours ==
    {JSON(StatusOK, NoBody), Panic, PanicAfter(JSON(StatusOK, NoBody))}

BodiesFor(h) ==
    CASE h = "SubmitLogin" ->
            {BadJSON, Obj("pass" :> Rep("p", 6))}
            \cup Pairs("email", Emails, "pass", {Empty, Rep("p", 5), Rep("p", 6)})
      [] h \in {"SubmitRegistration", "Legacy_GetRegistrationFlow"} ->
            {BadJSON, Obj("email" :> GoodEmail @@ "pass" :> Rep("p", 8))}
            \cup {Obj("email" :> e @@ "pass" :> p @@ "first_name" :> <<"n">> @@ "last_name" :> l) :
                     e \in {<<"x">>, GoodEmail}, p \in {Rep("p", 7), Rep("p", 8)},
                     l \in {<<SP>>, <<"m">>}}
      [] h \in {"RequestVerificationEmail", "RequestRecoveryCode"} ->
            {BadJSON, Obj(<< >>)} \cup {Obj("email" :> e) : e \in Emails \cup {<<SP>> \o GoodEmail}}
      [] h = "SubmitVerificationCode" ->
            {BadJSON, Obj("email" :> GoodEmail)}
            \cup Pairs("email", {<<"x">>, GoodEmail}, "code", {<<SP>>, Rep("1", 5), Rep("1", 6)})
      [] h = "SubmitRecoveryCode" ->
            {BadJSON, Obj("code" :> Rep("1", 6)), Obj("password" :> Rep("p", 8))}
            \cup Pairs("code", {Rep("1", 5), Rep("1", 6)}, "password", {Rep("p", 7), Rep("p", 8)})
      [] h = "Chat" ->
            {BadJSON, Obj("messages" :> Empty), Obj("messages" :> <<"m">>)}
      [] h = "Generate" ->
            {BadJSON, Obj("prompt" :> Empty), Obj("prompt" :> <<"p">>)}
      [] OTHER -> {Obj(<< >>)}

FlowsFor(h) ==
    IF h \in SubmitHandlers \cup {"Legacy_GetRegistrationFlow"} THEN FlowIDs ELSE {Empty}

\* The Cookie header of a request; only Logout of internal/handlers/auth.go
\* reads it.
CookiesFor(h) ==
    IF h \in {"Legacy_Logout", "Legacy_ToSession", "Cookie_Logout"}
    THEN {Empty, TokenA} ELSE {Empty}

IdleReq ==
    [handler |-> "none", mw |-> "none", validator |-> "none", recoverer |-> FALSE,
     method |-> "", group |-> "", leaf |-> "",
     xSessionToken |-> Empty, authorization |-> Empty, cookie |-> Empty,
     flow |-> Empty, body |-> Obj(<< >>), cancelled |-> FALSE, cancelledAt |-> 0]

(***************************************************************************)
(* The identity provider: what it may answer to each call.                  *)
(***************************************************************************)
Fail(status) == [ok |-> FALSE, status |-> status, result |-> NoResult]

Ok(result) == [ok |-> TRUE, status |-> StatusOK, result |-> result]

SeqsUpTo(S, n) == UNION {[1..k -> S] : k \in 0..n}

\* A token that is not a valid session is never answered with a session.
ToSessionAnswers(token) ==
    {Fail(0), Fail(StatusInternalServerError)}
    \cup (IF token \in sessions THEN {Ok(SessionOf(token))} ELSE {Fail(StatusUnauthorized)})

CreateAnswers(type) ==
    {Fail(0), Fail(StatusInternalServerError), Ok([type |-> type, id |-> FlowF])}

CsrfNode ==
    [input |-> TRUE, name |-> "csrf_token", type |-> "hidden", required |-> TRUE,
     value |-> <<"c">>, isString |-> TRUE, label |-> Empty]
EmailNode ==
    [input |-> TRUE, name |-> "traits.email", type |-> "email", required |-> TRUE,
     value |-> Empty, isString |-> TRUE, label |-> <<"E">>]
TextNode ==
    [input |-> FALSE, name |-> "", type |-> "", required |-> FALSE,
     value |-> Empty, isString |-> FALSE, label |-> <<"T">>]

RegistrationFlows ==
    {[type |-> "registration_flow", id |-> FlowF, action |-> "url", method |-> "POST",
      expiresZero |-> z, nodes |-> n] :
        z \in BOOLEAN, n \in {<<CsrfNode, EmailNode>>, <<TextNode, EmailNode, CsrfNode>>}}

CreateRegistrationAnswers ==
    {Fail(0), Fail(StatusInternalServerError)} \cup {Ok(f) : f \in RegistrationFlows}

UpdateFailures == {Fail(0), Fail(StatusBadRequest)}

SettingsFlowS == <<"s">>
SettingsFlowT == <<"t">>

ContinueActions ==
    {SetToken(TokenA), SetToken(TokenB), SettingsUi(SettingsFlowS),
     SettingsUi(SettingsFlowT), OtherAction}

ContinueWithLists == SeqsUpTo(ContinueActions, MaxContinueWith)

ShortContinueWith == {<< >>, <<OtherAction>>, <<SettingsUi(SettingsFlowS)>>}

\* A login that succeeds grants a session token never granted before.
LoginAnswers ==
    UpdateFailures \cup {Fail(StatusUnauthorized), Fail(StatusInternalServerError)}
    \cup {Ok([type |-> "login", session_token |-> t, ContinueWith |-> cw]) :
             t \in Tokens \ issued, cw \in {<< >>, <<OtherAction>>}}

RegistrationAnswers ==
    UpdateFailures
    \cup {Ok([type |-> "registration", ContinueWith |-> cw]) : cw \in ShortContinueWith}

VerificationAnswers ==
    UpdateFailures \cup {Ok([type |-> "verification_flow", id |-> FlowF])}

RecoveryAnswers(lists) ==
    UpdateFailures
    \cup {Ok([type |-> "recovery_flow", id |-> FlowF, ContinueWith |-> cw]) : cw \in lists}

SettingsAnswers ==
    {Fail(0), Fail(StatusUnauthorized), Ok([type |-> "settings_flow", id |-> FlowF])}

NumSettings(actions) ==
    Cardinality({i \in 1..Len(actions) : actions[i].action = "show_settings_ui"})

SettingsAnswerSeqs(ans) ==
    IF ans.ok THEN [1..NumSettings(ans.result.ContinueWith) -> SettingsAnswers]
    ELSE {<< >>}

\* Revoking a token that is no valid session may be answered either way.
LogoutAnswers == {Fail(0), Fail(StatusUnauthorized), Ok([type |-> "no_content"])}

\* The answers out of S that a call made under context c can get: a call
\* under the context of a request that has been cancelled is cut off
\* without a response; a call under a background context is not.
Answered(c, S) ==
    IF req.cancelled /\ c = "request" THEN {a \in S : ~a.ok /\ a.status = 0} ELSE S

\* What validator.ValidateSession returns: the Kratos client against the
\* provider, or an arbitrary implementation of the interface (a session, an
\* error, or neither).
NoCall == Call("none", Empty, Empty, NoReqBody, Fail(0))

ValidatorReturns(validator, token) ==
    IF validator = "mock"
    THEN {[called |-> FALSE, call |-> NoCall, err |-> "", result |-> SessionOf(token)],
          [called |-> FALSE, call |-> NoCall, err |-> "invalid session", result |-> NoResult],
          [called |-> FALSE, call |-> NoCall, err |-> "", result |-> NoResult]}
    ELSE {KratosClient_ValidateSession(token, a) :
             a \in Answered("request", ToSessionAnswers(token))}

(***************************************************************************)
(* The state machine.  One request is in flight at a time:                  *)
(*   pc = "idle"     no request;                                            *)
(*   pc = "mw"       the middleware of the route is about to run;           *)
(*   pc = "handler"  the handler is about to run;                           *)
(*   pc = "recover"  the chain inside Recoverer has returned or unwound;    *)
(*   pc = "done"     the response is complete.                              *)
(* calls is the log of provider calls issued for the request, each tagged   *)
(* with the component that issued it and carrying the provider's answer.   *)
(* sessions is the provider's set of valid session tokens, issued the       *)
(* tokens it has ever granted, loggedOut the granted tokens for which       *)
(* Logout has answered 200.                                                 *)
(***************************************************************************)
Tagged(cs, by) ==
    [i \in 1..Len(cs) |->
        [by |-> by, op |-> cs[i].op, flow |-> cs[i].flow, token |-> cs[i].token,
         body |-> cs[i].body, ok |-> cs[i].ok, status |-> cs[i].status,
         result |-> cs[i].result, ctx |-> cs[i].ctx]]

\* Provider side of the calls a handler issued: a successful native logout
\* revokes the token of its body, a successful login grants its token.
Revoked(cs) ==
    {cs[i].body.SessionToken :
        i \in {j \in 1..Len(cs) : cs[j].op = "PerformNativeLogout" /\ cs[j].ok}}

Granted(cs, ans) ==
    IF \E i \in 1..Len(cs) : cs[i].op = "UpdateLoginFlow" /\ cs[i].ok
    THEN {ans.result.session_token} ELSE {}

NoVerdict == [invoked |-> FALSE, err |-> "", result |-> NoResult]

(***************************************************************************)
(* What main constructs once and every request shares, and what each       *)
(* goroutine of net/http holds for the request it serves.                   *)
(***************************************************************************)
\* Requests served at the same time.
NumWorkers == 2
Workers == 1..NumWorkers

PublicURL == "kratos-public"
AdminURL == "kratos-admin"

\* NewKratosClient: one API client per provider endpoint, configured once.
NewKratosClient(publicURL, adminURL) == [frontend |-> publicURL, admin |-> adminURL]

NoValidation == [called |-> FALSE, call |-> NoCall, err |-> "", result |-> NoResult]

\* A goroutine that serves no request: v is what the validator returned to
\* the middleware, ans the provider's answer to the handler, live whether
\* the provider held the credential of the request as a valid session at
\* the moment the handler ran.
IdleWorker ==
    [pc |-> "idle", req |-> IdleReq, ctx |-> NoCtx, v |-> NoValidation,
     ans |-> Fail(0), live |-> FALSE, resp |-> NoResp]

Init ==
    /\ pc = "idle"
    /\ req = IdleReq
    /\ ctx = NoCtx
    /\ verdict = NoVerdict
    /\ nextCalls = 0
    /\ calls = << >>
    /\ resp = NoResp
    /\ inner = NoResp
    /\ sessions = {}
    /\ issued = {}
    /\ loggedOut = {}
    /\ kratosClient = NewKratosClient(PublicURL, AdminURL)
    /\ inflight = [w \in Workers |-> IdleWorker]

Receive ==
    /\ pc = "idle"
    /\ \E w \in Wirings, h \in Headers :
         \E f \in FlowsFor(w.handler), b \in BodiesFor(w.handler),
            c \in CookiesFor(w.handler) :
            req' = [handler |-> w.handler, mw |-> w.mw, validator |-> w.validator,
                    recoverer |-> w.recoverer,
                    method |-> "", group |-> "", leaf |-> "",
                    xSessionToken |-> h.xSessionToken, authorization |-> h.authorization,
                    cookie |-> c, flow |-> f, body |-> b,
                    cancelled |-> FALSE, cancelledAt |-> 0]
    /\ pc' = IF req'.mw = "none" THEN "handler" ELSE "mw"
    /\ UNCHANGED <<kratosClient, inflight>>
    /\ UNCHANGED <<ctx, verdict, nextCalls, calls, resp, inner, sessions, issued, loggedOut>>

\* The server routes a request: the global middleware (Recoverer among it)
\* wraps everything, the middleware of the sub-router runs next, then the
\* handler the router finds for method and path.
RouteRequest ==
    /\ pc = "idle"
    /\ \E l \in RequestLines, h \in Headers :
         LET handler == Dispatch(l.method, l.group, l.leaf) IN
         \E f \in FlowsFor(handler), b \in BodiesFor(handler) :
            req' = [handler |-> handler, mw |-> GroupMiddleware(l.group),
                    validator |-> "kratos", recoverer |-> TRUE,
                    method |-> l.method, group |-> l.group, leaf |-> l.leaf,
                    xSessionToken |-> h.xSessionToken, authorization |-> h.authorization,
                    cookie |-> Empty, flow |-> f, body |-> b,
                    cancelled |-> FALSE, cancelledAt |-> 0]
    /\ pc' = IF req'.mw = "none" THEN "handler" ELSE "mw"
    /\ UNCHANGED <<kratosClient, inflight>>
    /\ UNCHANGED <<ctx, verdict, nextCalls, calls, resp, inner, sessions, issued, loggedOut>>

\* The client goes away or the deadline of the request passes: the context
\* of the request is cancelled.  cancelledAt is the number of provider calls
\* issued for the request by then.
Cancel ==
    /\ pc \in {"mw", "handler"}
    /\ ~req.cancelled
    /\ req' = [req EXCEPT !.cancelled = TRUE, !.cancelledAt = Len(calls)]
    /\ UNCHANGED <<kratosClient, inflight>>
    /\ UNCHANGED <<pc, ctx, verdict, nextCalls, calls, resp, inner, sessions, issued, loggedOut>>

\* The provider calls cs can be answered as they are: a call made under the
\* context of a cancelled request is cut off without a response.
Deliverable(cs) ==
    req.cancelled =>
        \A i \in 1..Len(cs) : cs[i].ctx = "request" => ~cs[i].ok /\ cs[i].status = 0

\* Where a request goes when the chain inside Recoverer has returned or
\* unwound: to the barrier when the request is wrapped by one.
Returned == IF req.recoverer THEN "recover" ELSE "done"

\* A middleware step: it either answers the request itself or invokes next.
Middleware(m, v) ==
    /\ (m.validated /\ v.called) => Deliverable(<<v.call>>)
    /\ resp' = m.resp
    /\ ctx' = m.ctx
    /\ verdict' = IF m.validated
                  THEN [invoked |-> TRUE, err |-> v.err, result |-> v.result]
                  ELSE NoVerdict
    /\ nextCalls' = IF m.next THEN nextCalls + 1 ELSE nextCalls
    /\ calls' = IF m.validated /\ v.called
                THEN calls \o Tagged(<<v.call>>, "middleware") ELSE calls
    /\ inner' = m.resp
    /\ pc' = IF m.next THEN "handler" ELSE Returned
    /\ UNCHANGED <<kratosClient, inflight>>
    /\ UNCHANGED <<req, sessions, issued, loggedOut>>

ServeAuthMiddleware ==
    /\ pc = "mw"
    /\ req.mw = "auth"
    /\ \E v \in ValidatorReturns(req.validator, ExtractSessionToken(req)) :
         Middleware(AuthMiddleware(req, v), v)

ServeOptionalAuthMiddleware ==
    /\ pc = "mw"
    /\ req.mw = "optional"
    /\ \E v \in ValidatorReturns(req.validator, ExtractSessionToken(req)) :
         Middleware(OptionalAuthMiddleware(req, v), v)

\* The stub handler the middleware tests put behind a middleware.
ServeNext ==
    /\ pc = "handler"
    /\ req.handler = "next"
    /\ resp' = JSON(StatusOK, NoBody)
    /\ inner' = resp'
    /\ pc' = Returned
    /\ UNCHANGED <<kratosClient, inflight>>
    /\ UNCHANGED <<req, ctx, verdict, nextCalls, calls, sessions, issued, loggedOut>>

\* The router's answers to a request it has no handler for.
ServeNotFound ==
    /\ pc = "handler"
    /\ req.handler = "NotFound"
    /\ resp' = HttpError("404 page not found", StatusNotFound)
    /\ inner' = resp'
    /\ pc' = Returned
    /\ UNCHANGED <<kratosClient, inflight>>
    /\ UNCHANGED <<req, ctx, verdict, nextCalls, calls, sessions, issued, loggedOut>>

ServeMethodNotAllowed ==
    /\ pc = "handler"
    /\ req.handler = "MethodNotAllowed"
    /\ resp' = HttpError("", StatusMethodNotAllowed)
    /\ inner' = resp'
    /\ pc' = Returned
    /\ UNCHANGED <<kratosClient, inflight>>
    /\ UNCHANGED <<req, ctx, verdict, nextCalls, calls, sessions, issued, loggedOut>>

\* GET /health
ServeHealth ==
    /\ pc = "handler"
    /\ req.handler = "Health"
    /\ resp' = Success([type |-> "HealthResponse", Status |-> "healthy"])
    /\ inner' = resp'
    /\ pc' = Returned
    /\ UNCHANGED <<kratosClient, inflight>>
    /\ UNCHANGED <<req, ctx, verdict, nextCalls, calls, sessions, issued, loggedOut>>

\* The handlers the Recoverer test wraps, and any other http.Handler.
ServeDownstream ==
    /\ pc = "handler"
    /\ req.handler = "downstream"
    /\ \E w \in DownstreamBehaviours : resp' = w
    /\ inner' = resp'
    /\ pc' = Returned
    /\ UNCHANGED <<kratosClient, inflight>>
    /\ UNCHANGED <<req, ctx, verdict, nextCalls, calls, sessions, issued, loggedOut>>

\* The deferred function of Recoverer runs when the wrapped chain is left.
ServeRecoverer ==
    /\ pc = "recover"
    /\ resp' = Recoverer(resp)
    /\ pc' = "done"
    /\ UNCHANGED <<kratosClient, inflight>>
    /\ UNCHANGED <<req, ctx, verdict, nextCalls, calls, inner, sessions, issued, loggedOut>>

\* A handler step: the handler writes its response, the provider applies
\* the calls the handler issued.
Handle(h, o, ans) ==
    /\ pc = "handler"
    /\ req.handler = h
    /\ Deliverable(o.calls)
    /\ resp' = o.resp
    /\ calls' = calls \o Tagged(o.calls, "handler")
    /\ sessions' = (sessions \ Revoked(o.calls)) \cup Granted(o.calls, ans)
    /\ issued' = issued \cup Granted(o.calls, ans)
    /\ loggedOut' = IF /\ h = "Logout"
                       /\ o.resp.status = StatusOK
                       /\ ExtractSessionToken(req) \in issued
                    THEN loggedOut \cup {ExtractSessionToken(req)}
                    ELSE loggedOut
    /\ inner' = o.resp
    /\ pc' = Returned
    /\ UNCHANGED <<kratosClient, inflight>>
    /\ UNCHANGED <<req, ctx, verdict, nextCalls>>

HandleCreateLoginFlow ==
    \E ans \in Answered("request", CreateAnswers("login_flow")) :
        Handle("CreateLoginFlow", CreateLoginFlow(req, ans), ans)

HandleSubmitLogin ==
    \E ans \in Answered("request", LoginAnswers) :
        Handle("SubmitLogin", SubmitLogin(req, ans), ans)

HandleCreateRegistrationFlow ==
    \E ans \in Answered("request", CreateRegistrationAnswers) :
        Handle("CreateRegistrationFlow", CreateRegistrationFlow(req, ans), ans)

HandleSubmitRegistration ==
    \E ans \in Answered("request", RegistrationAnswers) :
        Handle("SubmitRegistration", SubmitRegistration(req, ans), ans)

HandleCreateVerificationFlow ==
    \E ans \in Answered("request", CreateAnswers("verification_flow")) :
        Handle("CreateVerificationFlow", CreateVerificationFlow(req, ans), ans)

HandleRequestVerificationEmail ==
    \E ans \in Answered("request", VerificationAnswers) :
        Handle("RequestVerificationEmail", RequestVerificationEmail(req, ans), ans)

HandleSubmitVerificationCode ==
    \E ans \in Answered("request", VerificationAnswers) :
        Handle("SubmitVerificationCode", SubmitVerificationCode(req, ans), ans)

HandleLogout ==
    \E ans \in Answered("request", LogoutAnswers) :
        Handle("Logout", Logout(req, ans), ans)

HandleWhoAmI ==
    \E ans \in Answered("request", ToSessionAnswers(ExtractSessionToken(req))) :
        Handle("WhoAmI", WhoAmI(req, ans), ans)

HandleCreateRecoveryFlow ==
    \E ans \in Answered("request", CreateAnswers("recovery_flow")) :
        Handle("CreateRecoveryFlow", CreateRecoveryFlow(req, ans), ans)

HandleRequestRecoveryCode ==
    \E ans \in Answered("request", RecoveryAnswers(ShortContinueWith)) :
        Handle("RequestRecoveryCode", RequestRecoveryCode(req, ans), ans)

HandleSubmitRecoveryCode ==
    /\ req.handler = "SubmitRecoveryCode"
    /\ \E ans \in Answered("request", RecoveryAnswers(ContinueWithLists)) :
         \E settingsAnswers \in SettingsAnswerSeqs(ans) :
            Handle("SubmitRecoveryCode", SubmitRecoveryCode(req, ans, settingsAnswers), ans)

LLMAnswers == {Fail(0), Ok([type |-> "content"])}

HandleChat ==
    \E ans \in Answered("request", LLMAnswers) : Handle("Chat", Chat(req, ans), ans)

HandleGenerate ==
    \E ans \in Answered("request", LLMAnswers) :
        Handle("Generate", Generate(req, ans), ans)

HandleLegacyCreateLoginFlow ==
    \E ans \in Answered("request", CreateAnswers("login_flow")) :
        Handle("Legacy_CreateLoginFlow", Legacy_CreateLoginFlow(req, ans), ans)

HandleLegacyCreateRegistrationFlow ==
    \E ans \in Answered("request", CreateRegistrationAnswers) :
        Handle("Legacy_CreateRegistrationFlow", Legacy_CreateRegistrationFlow(req, ans), ans)

HandleLegacyGetRegistrationFlow ==
    \E ans \in Answered("background", RegistrationAnswers) :
        Handle("Legacy_GetRegistrationFlow", Legacy_GetRegistrationFlow(req, ans), ans)

HandleCookieLogout ==
    \E ans \in Answered("request", CreateAnswers("logout_flow")) :
        Handle("Cookie_Logout", Cookie_Logout(req, ans), ans)

HandleLegacyLogout ==
    \E ans \in Answered("request", CreateAnswers("logout_flow")) :
        Handle("Legacy_Logout", Legacy_Logout(req, ans), ans)

\* A session method of a client is invoked with the credential of the
\* request; what it returns is kept in verdict.
Invoke(h, v) ==
    /\ pc = "handler"
    /\ req.handler = h
    /\ v.called => Deliverable(<<v.call>>)
    /\ verdict' = [invoked |-> TRUE, err |-> v.err, result |-> v.result]
    /\ calls' = IF v.called THEN calls \o Tagged(<<v.call>>, "client") ELSE calls
    /\ pc' = Returned
    /\ UNCHANGED <<kratosClient, inflight>>
    /\ UNCHANGED <<req, ctx, nextCalls, resp, inner, sessions, issued, loggedOut>>

InvokeValidateSession ==
    \E ans \in Answered("request", ToSessionAnswers(ExtractSessionToken(req))) :
        Invoke("ValidateSession",
               KratosClient_ValidateSession(ExtractSessionToken(req), ans))

InvokeLegacyToSession ==
    \E ans \in Answered("request",
                         ToSessionAnswers(IF ExtractSessionToken(req) # Empty
                                          THEN ExtractSessionToken(req) ELSE req.cookie)) :
        Invoke("Legacy_ToSession",
               Legacy_KratosClient_ToSession(req.cookie, ExtractSessionToken(req), ans))

\* The response has been sent; the server is ready for the next request.
Finish ==
    /\ pc = "done"
    /\ pc' = "idle"
    /\ req' = IdleReq
    /\ ctx' = NoCtx
    /\ verdict' = NoVerdict
    /\ nextCalls' = 0
    /\ calls' = << >>
    /\ resp' = NoResp
    /\ inner' = NoResp
    /\ UNCHANGED <<kratosClient, inflight>>
    /\ UNCHANGED <<sessions, issued, loggedOut>>

\* A session expires at the provider, at any moment.
Expire ==
    /\ \E t \in sessions : sessions' = sessions \ {t}
    /\ UNCHANGED <<kratosClient, inflight>>
    /\ UNCHANGED <<pc, req, ctx, verdict, nextCalls, calls, resp, inner, issued, loggedOut>>

Next ==
    \/ Receive
    \/ Cancel
    \/ RouteRequest
    \/ ServeAuthMiddleware
    \/ ServeOptionalAuthMiddleware
    \/ ServeNext
    \/ ServeDownstream
    \/ ServeNotFound
    \/ ServeMethodNotAllowed
    \/ ServeHealth
    \/ HandleChat
    \/ HandleLegacyLogout
    \/ HandleCookieLogout
    \/ HandleLegacyGetRegistrationFlow
    \/ InvokeValidateSession
    \/ InvokeLegacyToSession
    \/ HandleGenerate
    \/ ServeRecoverer
    \/ HandleCreateLoginFlow
    \/ HandleSubmitLogin
    \/ HandleCreateRegistrationFlow
    \/ HandleSubmitRegistration
    \/ HandleCreateVerificationFlow
    \/ HandleRequestVerificationEmail
    \/ HandleSubmitVerificationCode
    \/ HandleLogout
    \/ HandleWhoAmI
    \/ HandleCreateRecoveryFlow
    \/ HandleRequestRecoveryCode
    \/ HandleSubmitRecoveryCode
    \/ HandleLegacyCreateLoginFlow
    \/ HandleLegacyCreateRegistrationFlow
    \/ Finish
    \/ Expire

Spec == Init /\ [][Next]_vars

(***************************************************************************)
(* Requests that overlap.  net/http serves every request in a goroutine of  *)
(* its own; the goroutines share the KratosClient, the AuthHandler and the  *)
(* provider.  A goroutine runs the middleware of its route and then the     *)
(* handler, and the steps of different goroutines interleave.               *)
(***************************************************************************)
\* The *http.Request a goroutine is handed and passes down the chain.
RequestOf_Shared(w) == inflight[CHOOSE u \in Workers : \A x \in Workers : u >= x].req

RequestOf(w) == inflight[w].req

\* The routes the overlapping requests are for: login in the open group,
\* whoami and logout behind AuthMiddleware, and WhoAmI of
\* internal/handlers/auth.go behind the same middleware.
ConcurrentWirings ==
    {[handler |-> "SubmitLogin", mw |-> "none"],
     [handler |-> "WhoAmI", mw |-> "auth"],
     [handler |-> "Logout", mw |-> "auth"],
     [handler |-> "Legacy_WhoAmI", mw |-> "auth"]}

\* The session token the overlapping requests carry and the provider grants
\* to them.
ConcurrentTokens == {TokenA}

ConcurrentRequests ==
    UNION {{[IdleReq EXCEPT !.handler = c.handler, !.mw = c.mw, !.validator = "kratos",
                            !.recoverer = TRUE, !.xSessionToken = t,
                            !.flow = IF c.handler = "SubmitLogin" THEN FlowF ELSE Empty,
                            !.body = IF c.handler = "SubmitLogin"
                                     THEN Obj("email" :> GoodEmail @@ "pass" :> Rep("p", 6))
                                     ELSE IdleReq.body] :
               t \in IF c.handler = "SubmitLogin" THEN {Empty}
                                                  ELSE {Empty} \cup ConcurrentTokens} :
           c \in ConcurrentWirings}

\* The handler h run for request r under context c, inside Recoverer.
Respond(h, r, c, ans) ==
    LET o == CASE h = "SubmitLogin" -> SubmitLogin(r, ans)
               [] h = "WhoAmI" -> WhoAmI(r, ans)
               [] h = "Logout" -> Logout(r, ans)
               [] h = "Legacy_WhoAmI" -> Legacy_WhoAmI(c)
    IN  Out(Recoverer(o.resp), o.calls)

\* The answers the provider can give to the call handler h makes for r.
ProviderAnswers(h, r) ==
    CASE h = "SubmitLogin" ->
            {a \in LoginAnswers : a.ok => a.result.session_token \in ConcurrentTokens}
      [] h = "WhoAmI" -> ToSessionAnswers(ExtractSessionToken(r))
      [] h = "Logout" -> LogoutAnswers
      [] h = "Legacy_WhoAmI" -> {Fail(0)}

Accept(w) ==
    /\ inflight[w].pc = "idle"
    /\ \E r \in ConcurrentRequests :
         inflight' = [inflight EXCEPT ![w] =
                         [IdleWorker EXCEPT !.req = r,
                                            !.pc = IF r.mw = "none" THEN "handler" ELSE "mw"]]
    /\ UNCHANGED <<pc, req, ctx, verdict, nextCalls, calls, resp, inner>>
    /\ UNCHANGED <<sessions, issued, loggedOut, kratosClient>>

RunAuthMiddleware(w) ==
    /\ inflight[w].pc = "mw"
    /\ \E v \in ValidatorReturns("kratos", ExtractSessionToken(RequestOf(w))) :
         LET m == AuthMiddleware(RequestOf(w), v) IN
         inflight' = [inflight EXCEPT ![w].v = IF m.validated THEN v ELSE NoValidation,
                                      ![w].ctx = m.ctx,
                                      ![w].resp = m.resp,
                                      ![w].pc = IF m.next THEN "handler" ELSE "done"]
    /\ UNCHANGED <<pc, req, ctx, verdict, nextCalls, calls, resp, inner>>
    /\ UNCHANGED <<sessions, issued, loggedOut, kratosClient>>

RunHandler(w) ==
    /\ inflight[w].pc = "handler"
    /\ LET r == RequestOf(w) IN
       \E ans \in ProviderAnswers(r.handler, r) :
         LET o == Respond(r.handler, r, inflight[w].ctx, ans) IN
         /\ inflight' = [inflight EXCEPT ![w].ans = ans, ![w].resp = o.resp,
                                         ![w].live = ExtractSessionToken(r) \in sessions,
                                         ![w].pc = "done"]
         /\ sessions' = (sessions \ Revoked(o.calls)) \cup Granted(o.calls, ans)
         /\ issued' = issued \cup Granted(o.calls, ans)
         /\ loggedOut' = IF /\ r.handler = "Logout"
                            /\ o.resp.status = StatusOK
                            /\ ExtractSessionToken(r) \in issued
                         THEN loggedOut \cup {ExtractSessionToken(r)}
                         ELSE loggedOut
    /\ UNCHANGED <<pc, req, ctx, verdict, nextCalls, calls, resp, inner, kratosClient>>

\* The goroutine ends when ServeHTTP returns.
Return(w) ==
    /\ inflight[w].pc = "done"
    /\ inflight' = [inflight EXCEPT ![w] = IdleWorker]
    /\ UNCHANGED <<pc, req, ctx, verdict, nextCalls, calls, resp, inner>>
    /\ UNCHANGED <<sessions, issued, loggedOut, kratosClient>>

NextConcurrent ==
    \E w \in Workers :
        \/ Accept(w)
        \/ RunAuthMiddleware(w)
        \/ RunHandler(w)
        \/ Return(w)

SpecConcurrent == Init /\ [][NextConcurrent]_vars

\* The response the chain writes for request r when it is served with no
\* other request in flight, the validator returning v and the provider
\* answering ans.
Alone(r, v, ans) ==
    IF r.mw = "auth"
    THEN LET m == AuthMiddleware(r, v) IN
         IF m.next THEN Respond(r.handler, r, m.ctx, ans).resp ELSE m.resp
    ELSE Respond(r.handler, r, NoCtx, ans).resp

TypeOK ==
    /\ pc \in {"idle", "mw", "handler", "recover", "done"}
    /\ sessions \subseteq issued
    /\ loggedOut \subseteq issued
    /\ issued \subseteq Tokens
    /\ nextCalls \in 0..1

(***************************************************************************)
(* Properties.                                                              *)
(***************************************************************************)
\* The calls of the log that the handler of the request issued.
HandlerCalls == SelectSeq(calls, LAMBDA c : c.by = "handler")

\* The request has passed the middleware of its route.
PastMiddleware == pc \in {"handler", "done"}

\* The validator turned the credential of the request away.
Rejected == verdict.invoked /\ verdict.err # ""

\* C1: behind AuthMiddleware, a request whose extracted credential is empty
\* or rejected by the validator never reaches the downstream handler and is
\* answered 401; a request whose credential the validator accepts reaches
\* the downstream handler exactly once, and the session the validator
\* resolved is retrievable from the request context.
C1_MandatoryAuthGates ==
    (req.mw = "auth" /\ PastMiddleware) =>
        IF ExtractSessionToken(req) = Empty \/ Rejected
        THEN /\ nextCalls = 0
             /\ pc = "done"
             /\ HandlerCalls = << >>
             /\ resp.status = StatusUnauthorized
             /\ resp.code = ErrCodeUnauthorized
        ELSE /\ nextCalls = 1
             /\ verdict.invoked
             /\ GetSessionFromContext(ctx).ok
             /\ GetSessionFromContext(ctx).session = verdict.result

C1_Witness ==
    /\ req.mw = "auth"
    /\ pc = "done"
    /\ verdict.invoked
    /\ verdict.err = ""
    /\ nextCalls = 1
    /\ GetSessionFromContext(ctx).session = SessionOf(ExtractSessionToken(req))
    /\ resp.status = StatusOK

\* The credential of the request was valid: the validator returned a
\* session and no error for it.
CredentialValid ==
    /\ ExtractSessionToken(req) # Empty
    /\ verdict.invoked
    /\ verdict.err = ""
    /\ verdict.result # NoResult

\* C2: behind OptionalAuthMiddleware every request reaches the downstream
\* handler exactly once, whatever its credential, and a session is present
\* in the downstream context if and only if the credential was valid.
C2_OptionalAuthPassesThrough ==
    (req.mw = "optional" /\ PastMiddleware) =>
        /\ nextCalls = 1
        /\ GetSessionFromContext(ctx).ok <=> CredentialValid
        /\ GetSessionFromContext(ctx).ok =>
               GetSessionFromContext(ctx).session = verdict.result
        /\ pc = "done" => resp = JSON(StatusOK, NoBody)

C2_Witness ==
    /\ req.mw = "optional"
    /\ pc = "done"
    /\ Rejected
    /\ nextCalls = 1
    /\ ~GetSessionFromContext(ctx).ok
    /\ resp.status = StatusOK

\* The handler of the request has run to its response.
Served(h) == pc = "done" /\ req.handler = h /\ (req.mw = "none" \/ nextCalls = 1)

\* The handler wrote a success response (response.JSON with 200 or 201).
SuccessResponse == resp.kind = "json" /\ resp.status \in {StatusOK, StatusCreated}

\* The provider accepted / turned down the submission call of the handler,
\* which is the first call the handler issues.
SubmissionAccepted == HandlerCalls # << >> /\ HandlerCalls[1].ok
SubmissionFailed == HandlerCalls # << >> /\ ~HandlerCalls[1].ok

\* The continuation actions attached to a provider payload.
Attached(result) ==
    IF "ContinueWith" \in DOMAIN result THEN result.ContinueWith ELSE << >>

\* The continuation actions attached to the answer to the submission call.
ContinueWith == Attached(HandlerCalls[1].result)

SettingsCalls == SelectSeq(HandlerCalls, LAMBDA c : c.op = "UpdateSettingsFlow")

SettingsActions == {i \in 1..Len(ContinueWith) : ContinueWith[i].action = "show_settings_ui"}

TokenActions == {i \in 1..Len(ContinueWith) : ContinueWith[i].action = "set_ory_session_token"}

\* The handler executed a continuation action successfully: a settings
\* flow was submitted with success, a session token was used as credential.
Executed(a) ==
    CASE a.action = "show_settings_ui" ->
            \E i \in 1..Len(SettingsCalls) :
                SettingsCalls[i].flow = a.flow /\ SettingsCalls[i].ok
      [] a.action = "set_ory_session_token" ->
            \E i \in 1..Len(SettingsCalls) : SettingsCalls[i].token = a.token
      [] OTHER -> FALSE

\* C3, as claimed: a flow-submission handler writes a success response only
\* if the provider returned a success payload and every continuation action
\* attached to it was executed successfully, none skipped.
C3_SuccessOnlyAfterEveryContinuation ==
    \A h \in SubmitHandlers :
        (Served(h) /\ SuccessResponse) =>
            /\ SubmissionAccepted
            /\ \A i \in 1..Len(ContinueWith) : Executed(ContinueWith[i])

\* C3, as the handlers behave: a flow-submission handler writes a success
\* response only if the provider accepted the submission, and
\* SubmitRecoveryCode only if in addition every settings-flow action
\* attached to the recovery response was submitted successfully, one
\* submission per settings action.  Actions of other kinds, and the actions
\* attached to login, registration and verification responses, are not
\* executed: the payload goes to the client as received.
C3_SuccessOnlyAfterSubmission ==
    \A h \in SubmitHandlers :
        (Served(h) /\ SuccessResponse) =>
            /\ SubmissionAccepted
            /\ resp.body = HandlerCalls[1].result
            /\ Len(SettingsCalls) =
                  (IF h = "SubmitRecoveryCode" THEN Cardinality(SettingsActions) ELSE 0)
            /\ Len(HandlerCalls) = 1 + Len(SettingsCalls)
            /\ \A i \in 1..Len(SettingsCalls) : SettingsCalls[i].ok
            /\ h = "SubmitRecoveryCode" =>
                  \A i \in SettingsActions : Executed(ContinueWith[i])

C3_Witness ==
    /\ Served("SubmitRecoveryCode")
    /\ SuccessResponse
    /\ SubmissionAccepted
    /\ ContinueWith = <<SettingsUi(SettingsFlowS), OtherAction>>
    /\ Len(SettingsCalls) = 1

\* The token of the last session-token action of the recovery response.
LastToken ==
    ContinueWith[CHOOSE i \in TokenActions : \A j \in TokenActions : j <= i].token

\* C4: when the recovery response carries a session-token action and one
\* settings-flow action, SubmitRecoveryCode issues exactly one settings
\* submission, addressed to the referenced settings flow, carrying the
\* validated new password and authenticated with the session token of the
\* same response.
C4_OneSettingsSubmission ==
    (/\ Served("SubmitRecoveryCode")
     /\ SubmissionAccepted
     /\ TokenActions # {}
     /\ Cardinality(SettingsActions) = 1) =>
        /\ Len(SettingsCalls) = 1
        /\ Len(HandlerCalls) = 2
        /\ \A i \in SettingsActions : SettingsCalls[1].flow = ContinueWith[i].flow
        /\ SettingsCalls[1].body.Method = "password"
        /\ SettingsCalls[1].body.Password = Field(req.body, "password")
        /\ Len(SettingsCalls[1].body.Password) >= MinRecoveryPasswordLen
        /\ SettingsCalls[1].token = LastToken
        /\ SettingsCalls[1].token # Empty

C4_Witness ==
    /\ Served("SubmitRecoveryCode")
    /\ SubmissionAccepted
    /\ ContinueWith = <<SettingsUi(SettingsFlowT), SetToken(TokenB)>>
    /\ Len(SettingsCalls) = 1
    /\ SettingsCalls[1].token = TokenB
    /\ SettingsCalls[1].flow = SettingsFlowT
    /\ SuccessResponse

\* C5: when the successful recovery response carries neither a
\* session-token action nor a settings-flow action, SubmitRecoveryCode makes
\* no settings submission and returns the recovery response unchanged with
\* status 200.
C5_NoContinuationPassesThrough ==
    (/\ Served("SubmitRecoveryCode")
     /\ SubmissionAccepted
     /\ TokenActions = {}
     /\ SettingsActions = {}) =>
        /\ SettingsCalls = << >>
        /\ Len(HandlerCalls) = 1
        /\ resp.kind = "json"
        /\ resp.status = StatusOK
        /\ resp.body = HandlerCalls[1].result

C5_Witness ==
    /\ Served("SubmitRecoveryCode")
    /\ SubmissionAccepted
    /\ ContinueWith = <<OtherAction>>
    /\ Len(HandlerCalls) = 1
    /\ resp.status = StatusOK

\* C6: when the recovery-code submission succeeds at the provider and a
\* settings submission fails, SubmitRecoveryCode answers INTERNAL_ERROR
\* (500); it answers BAD_REQUEST (400) exactly when the provider turned the
\* recovery-code submission itself down.
C6_SettingsFailureIsInternal ==
    Served("SubmitRecoveryCode") =>
        /\ (SubmissionAccepted /\ \E i \in 1..Len(SettingsCalls) : ~SettingsCalls[i].ok) =>
               /\ resp.code = ErrCodeInternal
               /\ resp.status = StatusInternalServerError
        /\ resp.code = ErrCodeBadRequest <=> SubmissionFailed
        /\ resp.code = ErrCodeBadRequest => resp.status = StatusBadRequest

C6_Witness ==
    /\ Served("SubmitRecoveryCode")
    /\ SubmissionAccepted
    /\ Len(SettingsCalls) = 1
    /\ ~SettingsCalls[1].ok
    /\ resp.code = ErrCodeInternal
    /\ resp.status = StatusInternalServerError

\* C7: once a token granted by a login has been given to a logout request
\* that answered 200 {"message": "Successfully logged out"}, every later
\* whoami request presenting that token is answered 401.
C7_LoggedOutTokenIsRefused ==
    (/\ pc = "done"
     /\ req.handler = "WhoAmI"
     /\ ExtractSessionToken(req) \in loggedOut) =>
        /\ resp.status = StatusUnauthorized
        /\ resp.code = ErrCodeUnauthorized

C7_Witness ==
    /\ Served("WhoAmI")
    /\ ExtractSessionToken(req) \in loggedOut
    /\ ExtractSessionToken(req) \in issued
    /\ SubmissionFailed
    /\ HandlerCalls[1].op = "ToSession"
    /\ resp.status = StatusUnauthorized

\* What the body validator of a flow-submission handler says of the body.
BodyValidation(h) ==
    CASE h = "SubmitLogin" -> ValidateLoginInput(req.body)
      [] h = "SubmitRegistration" -> ValidateRegistrationInput(req.body)
      [] h = "RequestVerificationEmail" -> ValidateVerificationEmailInput(req.body)
      [] h = "SubmitVerificationCode" -> ValidateVerificationCodeInput(req.body)
      [] h = "RequestRecoveryCode" -> ValidateRecoveryEmailInput(req.body)
      [] h = "SubmitRecoveryCode" -> ValidateRecoveryCodeInput(req.body)

\* The provider method a flow-submission handler calls with a valid request.
SubmissionOp(h) ==
    CASE h = "SubmitLogin" -> "UpdateLoginFlow"
      [] h = "SubmitRegistration" -> "UpdateRegistrationFlow"
      [] h \in {"RequestVerificationEmail", "SubmitVerificationCode"} -> "UpdateVerificationFlow"
      [] h \in {"RequestRecoveryCode", "SubmitRecoveryCode"} -> "UpdateRecoveryFlow"

FlowIDMissing == TrimSpace(req.flow) = Empty

C9_RejectedCodeIsBadRequest ==
    (Served("SubmitVerificationCode") /\ SubmissionFailed) =>
        /\ resp.code = ErrCodeBadRequest
        /\ resp.status = StatusBadRequest
        /\ resp.kind = "error"

C9_Witness ==
    /\ Served("SubmitVerificationCode")
    /\ SubmissionFailed
    /\ HandlerCalls[1].op = "UpdateVerificationFlow"
    /\ HandlerCalls[1].body.Code = <<Rep("1", 6)>>
    /\ resp.code = ErrCodeBadRequest

\* The create-flow handlers of the repository: the four of the current
\* handler set and the two of internal/handlers/auth.go.
AllCreateHandlers == CreateHandlers \cup LegacyHandlers

\* C10: every create-flow handler answers a provider failure with
\* SERVICE_UNAVAILABLE (503), never with a client error, a 500 or a fault,
\* and a provider success with 200.
C10_CreateFlowFailureIs503 ==
    \A h \in AllCreateHandlers :
        Served(h) =>
            /\ Len(HandlerCalls) = 1
            /\ IF HandlerCalls[1].ok
               THEN resp.kind = "json" /\ resp.status = StatusOK
               ELSE /\ resp.kind = "error"
                    /\ resp.status = StatusServiceUnavailable
                    /\ resp.code = ErrCodeServiceUnavail

\* C10 for the handler set the server is built from (part_007): these four
\* answer as claimed.
C10_CurrentCreateFlowFailureIs503 ==
    \A h \in CreateHandlers :
        Served(h) =>
            /\ Len(HandlerCalls) = 1
            /\ IF HandlerCalls[1].ok
               THEN resp.kind = "json" /\ resp.status = StatusOK
               ELSE /\ resp.kind = "error"
                    /\ resp.status = StatusServiceUnavailable
                    /\ resp.code = ErrCodeServiceUnavail

ProtectedGroups == {"verification", "llm", "misc"}

\* The provider validated the credential of the request in flight: the
\* middleware's ToSession call for that credential is in the log of the
\* request and was answered with a session.
ProviderValidated ==
    /\ ExtractSessionToken(req) # Empty
    /\ verdict.invoked
    /\ verdict.err = ""
    /\ \E i \in 1..Len(calls) :
          /\ calls[i].by = "middleware"
          /\ calls[i].op = "ToSession"
          /\ calls[i].ok
          /\ calls[i].token = ExtractSessionToken(req)

\* The handler of the route has been entered for the request in flight.
HandlerEntered ==
    \/ pc = "handler"
    \/ pc \in {"recover", "done"} /\ (req.mw = "none" \/ nextCalls > 0)

Suffixes(a) == {SubSeq(a, k, Len(a)) : k \in 1..(Len(a) + 1)}

\* The text after the scheme of a well-formed bearer header, if there is one.
BearerTexts(a) == {x \in Suffixes(a) : a = Bearer \o x}

\* C13: for every combination of the two credential headers the extracted
\* credential is the X-Session-Token value when that header is non-empty
\* (whatever the Authorization header holds), else the text after "Bearer "
\* of the Authorization header, else the empty string; a wrong scheme and
\* a bearer header without a token both give the empty string, and the
\* result is always a string.
C13_ExtractSessionToken ==
    pc # "idle" =>
        LET t == ExtractSessionToken(req) IN
        /\ Len(t) \in Nat
        /\ IF req.xSessionToken # Empty THEN t = req.xSessionToken
           ELSE IF BearerTexts(req.authorization) # {}
           THEN t \in BearerTexts(req.authorization)
           ELSE t = Empty
        /\ (req.xSessionToken = Empty /\ req.authorization = Bearer) => t = Empty
        /\ (req.xSessionToken = Empty /\ ~HasPrefix(req.authorization, Bearer)) => t = Empty
        /\ \A i \in 1..Len(calls) : calls[i].by = "middleware" => calls[i].token = t

C13_Witness ==
    /\ pc = "done"
    /\ req.xSessionToken = TokenA
    /\ req.authorization = Bearer \o TokenB
    /\ \E i \in 1..Len(calls) : calls[i].by = "middleware" /\ calls[i].token = TokenA

\* The two Logout handlers of the repository.
AllLogoutHandlers == {"Logout", "Legacy_Logout"}

\* The request carries no credential at all.
NoCredential == ExtractSessionToken(req) = Empty /\ req.cookie = Empty

\* The answer Logout owes a request, given what the handler has done.
LogoutAnswersAsClaimed ==
    IF NoCredential
    THEN /\ resp.status \in 400..499
         /\ HandlerCalls = << >>
    ELSE /\ Len(HandlerCalls) = 1
         /\ IF HandlerCalls[1].ok
            THEN /\ resp.kind = "json"
                 /\ resp.status = StatusOK
                 /\ resp.body = [type |-> "message", message |-> "Successfully logged out"]
            ELSE /\ resp.kind = "error"
                 /\ resp.code = ErrCodeInternal
                 /\ resp.status = StatusInternalServerError

\* C14: Logout rejects a request without a credential with a 4xx client
\* error and makes no provider logout call; with a credential, provider
\* success gives 200 with the message "Successfully logged out" and
\* provider failure gives INTERNAL_ERROR (500).
C14_LogoutRequiresCredential ==
    \A h \in AllLogoutHandlers : Served(h) => LogoutAnswersAsClaimed

\* C14 for the Logout the server is built from (part_007): it answers as
\* claimed.
C14_CurrentLogoutRequiresCredential ==
    Served("Logout") => LogoutAnswersAsClaimed

C14_Witness ==
    /\ Served("Logout")
    /\ ExtractSessionToken(req) = TokenA
    /\ Len(HandlerCalls) = 1
    /\ HandlerCalls[1].op = "PerformNativeLogout"
    /\ ~HandlerCalls[1].ok
    /\ resp.status = StatusInternalServerError

\* The calls of the log that a client method invoked on its own issued.
ClientCalls == SelectSeq(calls, LAMBDA c : c.by = "client")

\* The errors that classify a failure as unauthorized.
UnauthorizedErrors ==
    {"unauthorized: invalid or expired session", "unauthorized: provider error"}

\* What the session method of a client owes its caller.
SessionValidationAsClaimed ==
    IF NoCredential
    THEN /\ ClientCalls = << >>
         /\ verdict.err # ""
         /\ verdict.result = NoResult
    ELSE /\ Len(ClientCalls) = 1
         /\ ClientCalls[1].op = "ToSession"
         /\ IF ClientCalls[1].ok
            THEN verdict.err = "" /\ verdict.result = ClientCalls[1].result
            ELSE /\ verdict.result = NoResult
                 /\ IF ClientCalls[1].status = StatusUnauthorized
                    THEN verdict.err \in UnauthorizedErrors
                    ELSE verdict.err = "failed to validate session"

\* C16: the session method of each client rejects an empty credential
\* locally without any provider call; a provider failure with HTTP 401 is
\* classified as unauthorized, any other provider failure as a generic
\* failure, and on provider success the provider's session is returned.
C16_ValidateSessionClassifies ==
    \A h \in ClientMethods :
        (pc = "done" /\ req.handler = h) => SessionValidationAsClaimed

\* C16 for ValidateSession of the client the server is built from.
C16_CurrentValidateSessionClassifies ==
    (pc = "done" /\ req.handler = "ValidateSession") => SessionValidationAsClaimed

C16_Witness ==
    /\ pc = "done"
    /\ req.handler = "ValidateSession"
    /\ Len(ClientCalls) = 1
    /\ ClientCalls[1].status = StatusUnauthorized
    /\ verdict.err = "unauthorized: invalid or expired session"

\* The six error kinds and the status fixed for each.
ErrorKinds ==
    {<<ErrCodeValidation, StatusBadRequest>>,
     <<ErrCodeBadRequest, StatusBadRequest>>,
     <<ErrCodeUnauthorized, StatusUnauthorized>>,
     <<ErrCodeNotFound, StatusNotFound>>,
     <<ErrCodeInternal, StatusInternalServerError>>,
     <<ErrCodeServiceUnavail, StatusServiceUnavailable>>}

\* The response is an error response / is the error envelope of one of the
\* six kinds with the status of its kind.
ErrorResponse == resp.status >= StatusBadRequest

Enveloped == resp.kind = "error" /\ <<resp.code, resp.status>> \in ErrorKinds

\* The request was answered by a handler or a middleware of the repository
\* (not by the router itself, and not by a stub).
AnsweredByRepository ==
    /\ pc = "done"
    /\ req.handler \notin {"NotFound", "MethodNotAllowed", "next", "downstream"}
           \cup ClientMethods

\* C15: every error response written by a handler or a middleware is the
\* envelope with one of the six codes, and its status is the status fixed
\* for that code.
C15_ErrorsUseEnvelope ==
    (AnsweredByRepository /\ ErrorResponse) => Enveloped

\* C15 for the handlers of part_007 and the middleware: their error
\* responses are all enveloped.
C15_AuthErrorsUseEnvelope ==
    (/\ AnsweredByRepository
     /\ req.handler \in CreateHandlers \cup SubmitHandlers \cup SessionHandlers
     /\ ErrorResponse) => Enveloped

C15_Witness ==
    /\ Served("SubmitLogin")
    /\ resp.kind = "error"
    /\ resp.code = ErrCodeValidation
    /\ resp.status = StatusBadRequest

\* The two handlers of the repository that submit a registration.
AllRegistrationSubmitters == {"SubmitRegistration", "Legacy_GetRegistrationFlow"}

\* The request passes the validation of a registration submission.
ValidatedRegistration ==
    ValidateFlowID(req.flow).ok /\ ValidateRegistrationInput(req.body).ok

\* What a registration submission owes its request.
RegistrationAnswersAsClaimed ==
    /\ ValidatedRegistration =>
          /\ Len(HandlerCalls) = 1
          /\ HandlerCalls[1].op = "UpdateRegistrationFlow"
          /\ ~HandlerCalls[1].ok =>
                /\ resp.kind = "error"
                /\ resp.code = ErrCodeInternal
                /\ resp.status = StatusInternalServerError
    /\ resp.status = StatusCreated =>
          /\ SubmissionAccepted
          /\ resp.body = HandlerCalls[1].result
          /\ resp.body.type = "registration"

\* C17: for every validated request a provider failure of the registration
\* submission yields INTERNAL_ERROR (500), and a 201 response is written
\* only when the provider returned a successful registration result.
C17_RegistrationFailureIs500 ==
    \A h \in AllRegistrationSubmitters : Served(h) => RegistrationAnswersAsClaimed

\* C17 for SubmitRegistration of part_007.
C17_CurrentRegistrationFailureIs500 ==
    Served("SubmitRegistration") => RegistrationAnswersAsClaimed

C17_Witness ==
    /\ Served("SubmitRegistration")
    /\ ValidatedRegistration
    /\ SubmissionFailed
    /\ resp.status = StatusInternalServerError

\* The request passes the validation of a login submission.
ValidatedLogin == ValidateFlowID(req.flow).ok /\ ValidateLoginInput(req.body).ok

\* C18: for every validated login submission, any failure of the provider's
\* login call yields UNAUTHORIZED (401), and provider success yields 200
\* with the provider's login result, session token included.
C18_LoginFailureIs401 ==
    (Served("SubmitLogin") /\ ValidatedLogin) =>
        /\ Len(HandlerCalls) = 1
        /\ HandlerCalls[1].op = "UpdateLoginFlow"
        /\ IF HandlerCalls[1].ok
           THEN /\ resp.kind = "json"
                /\ resp.status = StatusOK
                /\ resp.body = HandlerCalls[1].result
                /\ resp.body.session_token \in Tokens
           ELSE /\ resp.kind = "error"
                /\ resp.code = ErrCodeUnauthorized
                /\ resp.status = StatusUnauthorized

C18_Witness ==
    /\ Served("SubmitLogin")
    /\ ValidatedLogin
    /\ SubmissionFailed
    /\ HandlerCalls[1].status = StatusInternalServerError
    /\ resp.status = StatusUnauthorized

\* The documented HTTP surface: method, path (group and leaf), handler and
\* the middleware in front of it ("auth" for a session, "none" otherwise).
Doc(method, group, leaf, handler, auth) ==
    [method |-> method, group |-> group, leaf |-> leaf, handler |-> handler, auth |-> auth]

Documented ==
    {Doc("GET", "root", "/health", "Health", "none"),
     Doc("GET", "auth", "/login", "CreateLoginFlow", "none"),
     Doc("POST", "auth", "/login/flow", "SubmitLogin", "none"),
     Doc("GET", "auth", "/registration", "CreateRegistrationFlow", "none"),
     Doc("POST", "auth", "/registration/flow", "SubmitRegistration", "none"),
     Doc("GET", "verification", "/", "CreateVerificationFlow", "auth"),
     Doc("POST", "verification", "/flow", "RequestVerificationEmail", "auth"),
     Doc("POST", "verification", "/code", "SubmitVerificationCode", "auth"),
     Doc("GET", "recovery", "/", "CreateRecoveryFlow", "none"),
     Doc("POST", "recovery", "/flow", "RequestRecoveryCode", "none"),
     Doc("POST", "recovery", "/code", "SubmitRecoveryCode", "none"),
     Doc("GET", "misc", "/whoami", "WhoAmI", "auth"),
     Doc("POST", "misc", "/whoami", "WhoAmI", "auth"),
     Doc("GET", "misc", "/logout", "Logout", "auth"),
     Doc("POST", "misc", "/logout", "Logout", "auth"),
     Doc("POST", "llm", "/chat", "Chat", "auth"),
     Doc("POST", "llm", "/generate", "Generate", "auth")}

\* The documented entries for the request line of the request in flight.
DocumentedForRequest ==
    {d \in Documented :
        d.method = req.method /\ d.group = req.group /\ d.leaf = req.leaf}

\* C19: every documented (method, path) pair is routed by the server to its
\* handler behind the documented middleware; in particular the recovery
\* endpoints are routed without the session check, and whoami and logout
\* are each routed for GET and for POST behind it.
C19_DocumentedSurfaceIsRouted ==
    (req.method # "" /\ pc # "idle") =>
        \A d \in DocumentedForRequest : req.handler = d.handler /\ req.mw = d.auth

\* The routes the server does register are documented, with their
\* middleware.
C19_RegisteredRoutesAreDocumented ==
    (req.method # "" /\ pc # "idle" /\ req.handler \notin {"NotFound", "MethodNotAllowed"}) =>
        \E d \in DocumentedForRequest : req.handler = d.handler /\ req.mw = d.auth

\* The input nodes of the flow the provider returned, in node order.
InputNodes == SelectSeq(HandlerCalls[1].result.nodes, LAMBDA n : n.input)

\* C20: when the provider's registration flow has N input nodes, one of
\* them named csrf_token, the fields of the simplified response are exactly
\* those N nodes in node order (other nodes contribute none), and its
\* csrf_token is the value of the csrf_token node.
C20_RegistrationFlowShaping ==
    (/\ Served("CreateRegistrationFlow")
     /\ SubmissionAccepted
     /\ \E i \in 1..Len(InputNodes) : InputNodes[i].name = "csrf_token") =>
        /\ resp.status = StatusOK
        /\ Len(resp.body.Fields) = Len(InputNodes)
        /\ \A i \in 1..Len(InputNodes) :
              /\ resp.body.Fields[i].name = InputNodes[i].name
              /\ resp.body.Fields[i].type = InputNodes[i].type
              /\ resp.body.Fields[i].required = InputNodes[i].required
              /\ resp.body.Fields[i].value = InputNodes[i].value
        /\ \E i \in 1..Len(InputNodes) :
              /\ InputNodes[i].name = "csrf_token"
              /\ resp.body.CSRFToken = InputNodes[i].value
        /\ resp.body.CSRFToken # Empty

C20_Witness ==
    /\ Served("CreateRegistrationFlow")
    /\ SubmissionAccepted
    /\ Len(HandlerCalls[1].result.nodes) = 3
    /\ Len(InputNodes) = 2
    /\ Len(resp.body.Fields) = 2
    /\ resp.body.Fields[2].name = "csrf_token"
    /\ resp.body.CSRFToken = <<"c">>

\* C21: when the recovery response carries a settings-flow action but no
\* session-token action, SubmitRecoveryCode still issues the settings
\* submission, with an empty credential (no session token goes with the
\* provider call); a provider rejection of it is reported as
\* INTERNAL_ERROR (500).
C21_SettingsWithoutTokenStillSubmitted ==
    (/\ Served("SubmitRecoveryCode")
     /\ SubmissionAccepted
     /\ SettingsActions # {}
     /\ TokenActions = {}) =>
        /\ Len(SettingsCalls) >= 1
        /\ \A i \in 1..Len(SettingsCalls) : SettingsCalls[i].token = Empty
        /\ \A i \in SettingsActions :
              (\A j \in SettingsActions : i <= j) =>
                  SettingsCalls[1].flow = ContinueWith[i].flow
        /\ (\E i \in 1..Len(SettingsCalls) : ~SettingsCalls[i].ok) =>
              /\ resp.kind = "error"
              /\ resp.code = ErrCodeInternal
              /\ resp.status = StatusInternalServerError

C21_Witness ==
    /\ Served("SubmitRecoveryCode")
    /\ SubmissionAccepted
    /\ ContinueWith = <<OtherAction, SettingsUi(SettingsFlowS)>>
    /\ Len(SettingsCalls) = 1
    /\ SettingsCalls[1].token = Empty
    /\ SettingsCalls[1].status = StatusUnauthorized
    /\ resp.status = StatusInternalServerError

\* The handlers of part_007 that call the provider.
ProviderHandlers == CreateHandlers \cup SubmitHandlers \cup SessionHandlers

\* The submissions a flow-submission handler issued to its own flow kind.
Submissions(h) == SelectSeq(HandlerCalls, LAMBDA c : c.op = SubmissionOp(h))

\* C22: while one request is handled, no provider call follows a provider
\* call that failed (nothing is issued again), and the failure is answered
\* with an error response; each flow-submission handler issues its flow
\* submission at most once per request, and SubmitRecoveryCode issues
\* exactly one recovery-flow submission once validation has passed.
C22_NoAutomaticRetry ==
    /\ \A i \in 1..Len(calls) : ~calls[i].ok => i = Len(calls)
    /\ \A h \in ProviderHandlers :
          (Served(h) /\ HandlerCalls # << >> /\ ~HandlerCalls[Len(HandlerCalls)].ok) =>
              resp.kind = "error" /\ ErrorResponse
    /\ \A h \in SubmitHandlers : Served(h) => Len(Submissions(h)) <= 1
    /\ (/\ Served("SubmitRecoveryCode")
        /\ ~FlowIDMissing
        /\ ValidateRecoveryCodeInput(req.body).ok) =>
            Len(Submissions("SubmitRecoveryCode")) = 1

C22_Witness ==
    /\ Served("SubmitRecoveryCode")
    /\ Len(HandlerCalls) = 1
    /\ HandlerCalls[1].op = "UpdateRecoveryFlow"
    /\ ~HandlerCalls[1].ok
    /\ resp.status = StatusBadRequest

\* The provider calls issued for the request after its context was
\* cancelled.
CallsAfterCancel == {i \in 1..Len(calls) : req.cancelled /\ i > req.cancelledAt}

\* C23: every provider call issued while a request is handled carries the
\* context of that request, none runs under a detached background context;
\* hence a provider call issued for a cancelled request is cancelled with
\* it and never completes at the provider.
C23_CallsCarryRequestContext ==
    /\ \A i \in 1..Len(calls) : calls[i].ctx = "request"
    /\ \A i \in CallsAfterCancel : ~calls[i].ok

\* C23 for the client and the handlers of part_007 and the middleware.
C23_CurrentCallsCarryRequestContext ==
    req.handler \notin LegacyHandlers \cup LegacySessionHandlers =>
        /\ \A i \in 1..Len(calls) : calls[i].ctx = "request"
        /\ \A i \in CallsAfterCancel : ~calls[i].ok

FlowOps ==
    {"UpdateLoginFlow", "UpdateRegistrationFlow", "UpdateVerificationFlow",
     "UpdateRecoveryFlow", "UpdateSettingsFlow"}

\* The method a flow body is to select, and the one variant it is to set.
MethodOf(op) ==
    IF op \in {"UpdateVerificationFlow", "UpdateRecoveryFlow"} THEN "code" ELSE "password"

VariantOf(op) ==
    CASE op = "UpdateLoginFlow" -> "UpdateLoginFlowWithPasswordMethod"
      [] op = "UpdateRegistrationFlow" -> "UpdateRegistrationFlowWithPasswordMethod"
      [] op = "UpdateVerificationFlow" -> "UpdateVerificationFlowWithCodeMethod"
      [] op = "UpdateRecoveryFlow" -> "UpdateRecoveryFlowWithCodeMethod"
      [] op = "UpdateSettingsFlow" -> "UpdateSettingsFlowWithPasswordMethod"

\* The body the builder of handler h gives for the validated input, built
\* a second time.
Rebuilt(h, op, input) ==
    CASE h = "SubmitLogin" -> BuildPasswordLoginBody(input.Email, input.Password)
      [] h = "SubmitRegistration" ->
            BuildPasswordRegistrationBody(input.Email, input.Password,
                                          input.FirstName, input.LastName)
      [] h = "RequestVerificationEmail" -> BuildCodeVerificationBody(input.Email)
      [] h = "SubmitVerificationCode" ->
            BuildCodeVerificationBodySubmit(input.Email, input.Code)
      [] h = "RequestRecoveryCode" -> BuildCodeRecoveryBody(input.Email)
      [] h = "SubmitRecoveryCode" /\ op = "UpdateRecoveryFlow" ->
            BuildCodeRecoveryBodySubmit(input.Code, input.Password)
      [] h = "SubmitRecoveryCode" /\ op = "UpdateSettingsFlow" ->
            BuildPasswordSettingsBody(input.Password)

CarriesPassword(c, p) == "Password" \in DOMAIN c.body /\ c.body.Password = p

\* C26: whenever SubmitRecoveryCode answers 200, a provider call of the
\* request carried the validated new password, in the recovery submission
\* or in a settings submission.
C26_SuccessMeansPasswordSent ==
    pc \in {"recover", "done"} /\ req.handler = "SubmitRecoveryCode" /\ resp.status = StatusOK =>
        \E i \in 1..Len(HandlerCalls) :
            CarriesPassword(HandlerCalls[i], BodyValidation("SubmitRecoveryCode").input.Password)

\* C27: behind AuthMiddleware, whenever the downstream handler is invoked
\* the value under SessionContextKey is a session and not nil, whatever the
\* validator returned.
C27_DownstreamSessionIsNonNil ==
    req.mw = "auth" /\ nextCalls = 1 =>
        /\ GetSessionFromContext(ctx).ok
        /\ GetSessionFromContext(ctx).session # NoResult

\* The same for the validator main wires in, the Kratos client, which
\* returns a session whenever it returns no error.
C27_KratosSessionIsNonNil ==
    req.mw = "auth" /\ req.validator = "kratos" /\ nextCalls = 1 =>
        /\ GetSessionFromContext(ctx).ok
        /\ GetSessionFromContext(ctx).session # NoResult

\* Goroutine w has served a whoami request with handler h: the middleware
\* accepted the credential and the handler has written its response.
WhoAmIServed(w, h) ==
    /\ inflight[w].pc = "done"
    /\ inflight[w].req.handler = h
    /\ inflight[w].ctx.has

\* The whoami of goroutine w answered as the claim says: 200 only for a
\* credential that was a valid session when the handler ran, and 401 for
\* one that was not, however the middleware had judged it before.
WhoAmIAsClaimed(w) ==
    /\ inflight[w].resp.status = StatusOK => inflight[w].live
    /\ ~inflight[w].live =>
          /\ inflight[w].resp.status = StatusUnauthorized
          /\ inflight[w].resp.body # inflight[w].ctx.session

\* C28: a whoami request that races a logout of its token answers 200 only
\* if the token was still valid when the handler validated it; when the
\* provider has invalidated the token before, also between the validation
\* of the middleware and that of the handler, it answers 401 and does not
\* return the session the middleware resolved.
C28_WhoAmIRacingLogout ==
    \A w \in Workers :
        \A h \in {"WhoAmI", "Legacy_WhoAmI"} : WhoAmIServed(w, h) => WhoAmIAsClaimed(w)

\* The same for WhoAmI of part_007 alone, which asks the provider again.
C28_CurrentWhoAmIRacingLogout ==
    \A w \in Workers : WhoAmIServed(w, "WhoAmI") => WhoAmIAsClaimed(w)

\* The race has happened: the middleware accepted the token, a logout of
\* another goroutine invalidated it, and WhoAmI of part_007 answered.
C28_RaceReached ==
    \E w \in Workers :
        /\ WhoAmIServed(w, "WhoAmI")
        /\ ~inflight[w].live
        /\ ExtractSessionToken(inflight[w].req) \in loggedOut

\* The logout calls of the handler, and the credential each hands to the
\* provider: the session token of a native logout, the cookie of a logout
\* flow.
LogoutCalls ==
    SelectSeq(HandlerCalls,
              LAMBDA c : c.op \in {"PerformNativeLogout", "CreateBrowserLogoutFlow"})

LogoutCredential(c) ==
    IF c.op = "PerformNativeLogout" THEN c.body.SessionToken ELSE c.token

\* The credential the middleware of the request validated.
ValidatedCredential == ExtractSessionToken(req)

\* The logout request has passed the mandatory middleware and its handler,
\* one of hs, has run.
LogoutServedBehindAuth(hs) ==
    /\ pc \in {"recover", "done"}
    /\ req.handler \in hs
    /\ req.mw = "auth"
    /\ nextCalls = 1

\* C29: for a logout request that passes the mandatory middleware, the
\* credential handed to the logout call of the provider is the credential
\* the middleware validated.
C29_LogoutOfValidatedCredential ==
    LogoutServedBehindAuth({"Logout", "Cookie_Logout"}) =>
        \A i \in 1..Len(LogoutCalls) : LogoutCredential(LogoutCalls[i]) = ValidatedCredential

\* The same for Logout of part_007:319-335 alone, as main routes it.
C29_CurrentLogoutOfValidatedCredential ==
    LogoutServedBehindAuth({"Logout"}) =>
        /\ \A i \in 1..Len(LogoutCalls) :
              LogoutCredential(LogoutCalls[i]) = ValidatedCredential
        /\ \A i \in 1..Len(calls) :
              calls[i].by = "middleware" => calls[i].token = ValidatedCredential

\* A logout routed by main has been validated and handed to the provider.
C29_CurrentReached ==
    /\ LogoutServedBehindAuth({"Logout"})
    /\ Len(LogoutCalls) = 1
    /\ LogoutCalls[1].ok

\* C30: if SubmitRecoveryCode writes an error response, no settings
\* submission of the request has succeeded at the provider, whatever the
\* number and order of the continuation actions.
C30_NoErrorAfterAppliedUpdate ==
    pc \in {"recover", "done"} /\ req.handler = "SubmitRecoveryCode" /\ resp.kind = "error" =>
        \A i \in 1..Len(SettingsCalls) : ~SettingsCalls[i].ok
====
